---- MODULE Spec2Model ----
(***************************************************************************)
(* State-machine model of the off-chain arbitrage scanner of               *)
(* pancake-swap: the pool state store and token cache (utils-pool.ts),     *)
(* the triangular-cycle finder and its dispatch (calculate.ts, send.ts),   *)
(* the scheduler (monitor.ts) and the opportunity history file             *)
(* (utils-file.ts).                                                        *)
(*                                                                         *)
(* Numbers.  Token amounts of the finder are integers in units of 1/10000   *)
(* of a token; a profit percent is an integer in units of 1/10000 (so      *)
(* 0.01 is 100).  Times are milliseconds.                                  *)
(***************************************************************************)
EXTENDS Integers, Sequences, FiniteSets, TLC

VARIABLES
    now,                \* Date.now(), ms
    poolsMap,           \* config.state.poolsMap: lowercase pair address -> PoolData
    tokenPools,         \* config.state.tokenPools: token address -> set of pair addresses
    tokenCache,         \* config.state.tokenCache: lowercase token address -> TokenInfo
    currentPoolIndices, \* config.state.currentPoolIndices
    lastProfitFound,    \* config.state.lastProfitFound
    totalPools,         \* config.state.totalPools
    RANDOM_END,         \* config.RANDOM_END (updateRandomEnd)
    loads,              \* the loadPoolData calls suspended at an await
    ret,                \* what the loadPoolData call that returned last returned
    lastOp,             \* the operation the last step belongs to
    file,               \* data/arbitrage_opportunities.json
    saved,              \* the entries written to the file so far, oldest first
    latest,             \* what getLatestOpportunities returned last
    DEBUG,              \* config.DEBUG
    scanPaused,         \* monitor.ts: let scanPaused
    fullScanRunning,    \* monitor.ts: let fullScanRunning
    monitor,            \* where startMonitoring is: "new", "loading", "running"
    loaders,            \* the loadInitialPoolData calls in progress
    fullPasses,         \* the bodies of the full-refresh timer in progress
    priorityPasses,     \* the bodies of the priority timer in progress
    resets,             \* the instants at which the reset check fired, oldest first
    INPUT_ARGS,         \* config.INPUT_ARGS
    quotes,             \* what the router's getAmountsOut answers, per test amount
    finder,             \* where the findArbitrageOpportunities call is
    reported,           \* its local array opportunities, and what it returns
    calc,               \* the last calculateTriangularArbitrage call: arguments, results
    arbitrageQueue,     \* config.arbitrageQueue: the jobs added, oldest first
    sending,            \* the sendArbitrage calls suspended at queue.add
    flashSwap           \* FlashSwap.sol: the storage of the deployed contract

storeVars == <<now, poolsMap, tokenPools, tokenCache, currentPoolIndices,
               lastProfitFound, totalPools, RANDOM_END, loads, ret>>

histVars == <<file, saved, latest>>

schedVars == <<DEBUG, scanPaused, fullScanRunning, monitor, loaders, fullPasses,
               priorityPasses, resets>>

finderVars == <<INPUT_ARGS, quotes, finder, reported, calc, arbitrageQueue,
                sending>>

vars == <<storeVars, lastOp, histVars, schedVars, finderVars, flashSwap>>

\* The variables the store operations leave alone.
nonStoreVars == <<histVars, schedVars, finderVars, flashSwap>>

-----------------------------------------------------------------------------
(* Addresses.  An address is its identity and whether it is written in      *)
(* lower case; the chain and the configuration give checksummed (mixed      *)
(* case) addresses, and String.toLowerCase gives the lower-case one.        *)

Addr(id) == [id |-> id, lc |-> FALSE]

toLowerCase(a) == [a EXCEPT !.lc = TRUE]

Min(a, b) == IF a < b THEN a ELSE b

Max(a, b) == IF a > b THEN a ELSE b

-----------------------------------------------------------------------------
(* Configuration (config.ts).                                               *)

PRIORITY_REFRESH_INTERVAL == 20000

FULL_REFRESH_INTERVAL == 300000

UNKNOW_TOKEN_SYMBOL == "UNKNOW_SYMBOL"

POOLS_TO_SAMPLE == 1

RANDOM_START == 0

POOLS_NEWLY_ADDED == 1

\* PRIORITY_TOKENS_MUTABLE, restricted to four of its entries.
PRIORITY_TOKENS_MUTABLE ==
    [WBNB |-> Addr("WBNB"), BUSD |-> Addr("BUSD"),
     USDT |-> Addr("USDT"), CAKE |-> Addr("CAKE")]

PriorityTokenAddresses ==
    {toLowerCase(PRIORITY_TOKENS_MUTABLE[k]) : k \in DOMAIN PRIORITY_TOKENS_MUTABLE}

STABLECOINS ==
    {toLowerCase(PRIORITY_TOKENS_MUTABLE.BUSD), toLowerCase(PRIORITY_TOKENS_MUTABLE.USDT)}

-----------------------------------------------------------------------------
(* The chain: the pairs the factory knows, what a pair's read calls and a   *)
(* token's ERC20 calls answer.  XTK is a token outside the priority list    *)
(* with 8 decimals.                                                         *)

TokenIds == {"WBNB", "BUSD", "USDT", "CAKE", "XTK"}

TrueDecimals(id) == IF id = "XTK" THEN 8 ELSE 18

\* allPairs(i): registry index -> pair; token0()/token1() of each pair.
ChainPairs ==
    <<[id |-> "P_BUSD_CAKE", t0 |-> "BUSD", t1 |-> "CAKE"],
      [id |-> "P_CAKE_USDT", t0 |-> "CAKE", t1 |-> "USDT"],
      [id |-> "P_USDT_BUSD", t0 |-> "USDT", t1 |-> "BUSD"],
      [id |-> "P_WBNB_BUSD", t0 |-> "WBNB", t1 |-> "BUSD"],
      [id |-> "P_CAKE_WBNB", t0 |-> "CAKE", t1 |-> "WBNB"],
      [id |-> "P_CAKE_XTK",  t0 |-> "CAKE", t1 |-> "XTK"],
      [id |-> "P_XTK_BUSD",  t0 |-> "XTK",  t1 |-> "BUSD"]>>

PairIds == {ChainPairs[i].id : i \in DOMAIN ChainPairs}

PairOf(id) == CHOOSE i \in DOMAIN ChainPairs : ChainPairs[i].id = id

\* The registry index of a pair is its position less one.
RegistryIndex(id) == PairOf(id) - 1

\* What getReserves() of a pair answers at instant t, in whole tokens of each
\* side: trading moves the reserves between two instants.
ChainReserves(t) ==
    IF t < 20000 THEN <<30000, 60000>>
    ELSE IF t < 86400000 THEN <<60000, 30000>>
    ELSE IF t < 172800000 THEN <<80000, 81500>>
    ELSE <<20000, 60000>>

\* A raw on-chain amount: mant * 10^exp base units.
Raw(units, decimals) == [mant |-> units, exp |-> decimals]

\* ethers.formatUnits(raw, decimals): the decimal string of raw / 10^decimals,
\* kept as mant * 10^exp.
formatUnits(raw, decimals) == [mant |-> raw.mant, exp |-> raw.exp - decimals]

\* The instants at which the model looks at the clock.
Instants == {0, 20000, 300000}

\* The pairs and index arguments the store operations are called with.
StorePairs == {"P_BUSD_CAKE", "P_CAKE_XTK"}

\* The tokens whose symbol() or decimals() call may reject.
RevertingTokens == {"XTK"}

\* The load calls that may be suspended at the same time.
MaxInFlight == 1

\* The loadInitialPoolData calls, full-refresh bodies and priority bodies that
\* may be in progress at the same time.
MaxLoaders == 2

MaxFullPasses == 1

MaxPriorityPasses == 1

Slots == 1..MaxInFlight

-----------------------------------------------------------------------------
(* Pool State Store and Token Metadata Cache (utils-pool.ts).               *)

NoAddr == [id |-> "", lc |-> TRUE]

NoInfo == [got |-> FALSE, symbol |-> "", decimals |-> 0]

NoRaw == [mant |-> 0, exp |-> 0]

NoToken == [address |-> NoAddr, symbol |-> "", decimals |-> 0, reserve |-> NoRaw]

\* The value null of a PoolData | null.
NullPool ==
    [index |-> 0, address |-> NoAddr, token0 |-> NoToken, token1 |-> NoToken,
     liquidityUSD |-> [known |-> FALSE, usd |-> 0], updated |-> 0]

IdleLoad ==
    [pc |-> "idle", pair |-> NoAddr, index |-> 0,
     token0 |-> NoAddr, token1 |-> NoAddr, reserve0 |-> NoRaw, reserve1 |-> NoRaw,
     info0 |-> NoInfo, info1 |-> NoInfo, wake |-> 0]

NoRet == [kind |-> "none", pair |-> NoAddr, value |-> NullPool]

Op(name) == [op |-> name, pair |-> NoAddr, index |-> 0, force |-> FALSE]

CallOp(pairAddress, index, force) ==
    [op |-> "loadPoolData", pair |-> pairAddress, index |-> index, force |-> force]

\* A loadPoolData that ignores its index argument and always applies the short
\* interval.
RefreshIntervalShort(index) == PRIORITY_REFRESH_INTERVAL

\* index === -1 ? PRIORITY_REFRESH_INTERVAL / 1000 : FULL_REFRESH_INTERVAL / 1000,
\* kept in ms.
RefreshInterval(index) ==
    IF index = -1 THEN PRIORITY_REFRESH_INTERVAL ELSE FULL_REFRESH_INTERVAL

\* secondsSinceUpdate < refreshInterval, in ms (updated is an ISO string with ms).
IsFresh(existing, index, t) == t - existing.updated < RefreshInterval(index)

\* The "skip if already loaded recently" branch is taken.
CacheHit(pm, pairAddress, index, force, t) ==
    /\ ~force
    /\ pairAddress \in DOMAIN pm
    /\ IsFresh(pm[pairAddress], index, t)

\* Number(reserve) of a stablecoin side, in whole tokens (mant * 10^exp with
\* exp <= 0; a negative exp is below one token).
NumberUnits(reserve) == IF reserve.exp = 0 THEN reserve.mant ELSE 0

\* An estimate that doubles the reserve of the first stablecoin side it finds,
\* also when both sides are stablecoins.
LiquidityUSDOneSide(token0Lower, token1Lower, reserve0, reserve1) ==
    IF token0Lower \in STABLECOINS
    THEN [known |-> TRUE, usd |-> NumberUnits(reserve0) * 2]
    ELSE IF token1Lower \in STABLECOINS
    THEN [known |-> TRUE, usd |-> NumberUnits(reserve1) * 2]
    ELSE [known |-> FALSE, usd |-> 0]

\* The liquidity estimate of loadPoolData.
LiquidityUSD(token0Lower, token1Lower, reserve0, reserve1) ==
    IF token0Lower \in STABLECOINS /\ token1Lower \in STABLECOINS
    THEN [known |-> TRUE, usd |-> NumberUnits(reserve0) + NumberUnits(reserve1)]
    ELSE IF token0Lower \in STABLECOINS
    THEN [known |-> TRUE, usd |-> NumberUnits(reserve0) * 2]
    ELSE IF token1Lower \in STABLECOINS
    THEN [known |-> TRUE, usd |-> NumberUnits(reserve1) * 2]
    ELSE [known |-> FALSE, usd |-> 0]

\* A loadPoolData that looks at the symbol of token0 only.
HasUnknownSymbolToken0Only(info0, info1) == info0.symbol = UNKNOW_TOKEN_SYMBOL

\* token0Info.symbol === UNKNOW_TOKEN_SYMBOL || token1Info.symbol === UNKNOW_TOKEN_SYMBOL
HasUnknownSymbol(info0, info1) ==
    info0.symbol = UNKNOW_TOKEN_SYMBOL \/ info1.symbol = UNKNOW_TOKEN_SYMBOL

\* The PoolData record loadPoolData builds (name, prices and totalSupply,
\* which nothing modelled here reads, are left out).
BuildPoolData(pairAddress, index, token0, token1, raw0, raw1, info0, info1, t) ==
    LET reserve0 == formatUnits(raw0, info0.decimals)
        reserve1 == formatUnits(raw1, info1.decimals)
    IN  [index |-> index,
         address |-> pairAddress,
         token0 |-> [address |-> toLowerCase(token0), symbol |-> info0.symbol,
                     decimals |-> info0.decimals, reserve |-> reserve0],
         token1 |-> [address |-> toLowerCase(token1), symbol |-> info1.symbol,
                     decimals |-> info1.decimals, reserve |-> reserve1],
         liquidityUSD |-> LiquidityUSD(toLowerCase(token0), toLowerCase(token1),
                                       reserve0, reserve1),
         updated |-> t]

\* Map.set
MapSet(m, k, v) == [x \in DOMAIN m \cup {k} |-> IF x = k THEN v ELSE m[x]]

\* An index that keeps the last pool of a token only.
updateTokenPoolsMapReplacing(tp, tokenAddress, poolAddress) ==
    MapSet(tp, tokenAddress, {poolAddress})

updateTokenPoolsMap(tp, tokenAddress, poolAddress) ==
    MapSet(tp, tokenAddress,
           (IF tokenAddress \in DOMAIN tp THEN tp[tokenAddress] ELSE {}) \cup {poolAddress})

EmptyMap == [x \in {} |-> 0]

\* generateRandomPoolIndices: every array (as a set) the draws can produce.
generateRandomPoolIndices(count, min, max, total) ==
    LET maxC  == Min(max, total - 1)
        n     == Max(0, Min(count, maxC - min + 1))
        newly == {i \in (maxC - POOLS_NEWLY_ADDED + 1)..maxC : TRUE}
    IN  {S \cup newly : S \in {T \in SUBSET (min..maxC) : Cardinality(T) = n}}

\* The state after construction (config.state, RANDOM_END).
StoreInit ==
    /\ now = 0
    /\ poolsMap = EmptyMap
    /\ tokenPools = EmptyMap
    /\ tokenCache = EmptyMap
    /\ currentPoolIndices = {}
    /\ lastProfitFound = 0
    /\ totalPools = 0
    /\ RANDOM_END = 10000
    /\ loads = [i \in Slots |-> IdleLoad]
    /\ ret = NoRet
    /\ lastOp = Op("step")

\* The history file as the store operations find and leave it.
HistIdle ==
    /\ file = [kind |-> "absent", history |-> <<>>]
    /\ saved = <<>>
    /\ latest = [found |-> FALSE, opportunities |-> <<>>]

\* FlashSwap.sol: the storage after the constructor, with testMode and
\* debugMode false as constructed.
FlashSwapInit ==
    flashSwap = [defaultSlippage |-> 997,
                 slippageValues  |-> <<>>,
                 deadlineMinutes |-> 5,
                 TOKEN0 |-> "BUSD", TOKEN1 |-> "CAKE", TOKEN2 |-> "CROX"]

IdlePass == [pc |-> "idle", pools |-> <<>>, i |-> 0, writes |-> {}]

IdleLoader == [pc |-> "idle", origin |-> ""]

\* The scheduler before startMonitoring is called.
SchedIdle ==
    /\ DEBUG = TRUE
    /\ scanPaused = FALSE
    /\ fullScanRunning = FALSE
    /\ monitor = "new"
    /\ loaders = [l \in 1..MaxLoaders |-> IdleLoader]
    /\ fullPasses = [p \in 1..MaxFullPasses |-> IdlePass]
    /\ priorityPasses = [p \in 1..MaxPriorityPasses |-> IdlePass]
    /\ resets = <<>>

\* The arguments of a calculateTriangularArbitrage call, before any call.
NoCycle ==
    [startToken |-> NoAddr, midToken |-> NoAddr, destToken |-> NoAddr,
     pool1 |-> NullPool, pool2 |-> NullPool, pool3 |-> NullPool,
     testResults |-> <<>>, returned |-> <<>>]

\* The finder and the queue before findArbitrageOpportunities is called.
FinderIdle ==
    /\ INPUT_ARGS = [given |-> FALSE, percent |-> 0]
    /\ quotes = <<>>
    /\ finder = [pc |-> "idle", k |-> 0]
    /\ reported = <<>>
    /\ calc = NoCycle
    /\ arbitrageQueue = <<>>
    /\ sending = <<>>

\* Time passes.
Advance ==
    /\ \E t \in Instants : t > now /\ now' = t
    /\ lastOp' = Op("step")
    /\ UNCHANGED nonStoreVars
    /\ UNCHANGED <<poolsMap, tokenPools, tokenCache, currentPoolIndices,
                   lastProfitFound, totalPools, RANDOM_END, loads>>
    /\ ret' = NoRet

\* loadInitialPoolData's first lines: allPairsLength() answered, updateTotalPools
\* and updateRandomEnd.
UpdateTotalPools ==
    /\ totalPools' = Len(ChainPairs)
    /\ RANDOM_END' = Len(ChainPairs) - 1
    /\ lastOp' = Op("step")
    /\ UNCHANGED nonStoreVars
    /\ UNCHANGED <<now, poolsMap, tokenPools, tokenCache, currentPoolIndices,
                   lastProfitFound, loads>>
    /\ ret' = NoRet

FreeSlot ==
    CHOOSE i \in DOMAIN loads :
        loads[i].pc = "idle" /\ \A j \in DOMAIN loads : j < i => loads[j].pc # "idle"

\* loadPoolData(pairAddress, index, forceRefresh) up to its first await: the
\* cached record is returned, or the four reads of the pair are issued.
LoadPoolDataCall(pid, index, force) ==
    LET pairAddress == toLowerCase(Addr(pid)) IN
    /\ lastOp' = CallOp(pairAddress, index, force)
    /\ UNCHANGED nonStoreVars
    /\ IF CacheHit(poolsMap, pairAddress, index, force, now)
       THEN /\ ret' = [kind |-> "cached", pair |-> pairAddress, value |-> poolsMap[pairAddress]]
            /\ UNCHANGED loads
       ELSE /\ \E i \in DOMAIN loads : loads[i].pc = "idle"
            /\ loads' = [loads EXCEPT ![FreeSlot] =
                            [IdleLoad EXCEPT !.pc = "reads", !.pair = pairAddress,
                                             !.index = index]]
            /\ ret' = NoRet
    /\ UNCHANGED <<now, poolsMap, tokenPools, tokenCache, currentPoolIndices,
                   lastProfitFound, totalPools, RANDOM_END>>

\* getTokenInfo up to its await: the cached entry, or the three reads issued.
getTokenInfoCall(tc, address) ==
    IF toLowerCase(address) \in DOMAIN tc
    THEN [got |-> TRUE, symbol |-> tc[toLowerCase(address)].symbol,
          decimals |-> tc[toLowerCase(address)].decimals]
    ELSE NoInfo

\* token0(), token1(), getReserves() and totalSupply() all answered: both
\* getTokenInfo calls are made.
ReadsReturn(i) ==
    LET c  == loads[i]
        pr == ChainPairs[PairOf(c.pair.id)]
        u  == ChainReserves(now)
    IN  /\ c.pc = "reads"
        /\ loads' = [loads EXCEPT ![i] =
                [c EXCEPT !.pc = "tokens",
                          !.token0 = Addr(pr.t0), !.token1 = Addr(pr.t1),
                          !.reserve0 = Raw(u[1], TrueDecimals(pr.t0)),
                          !.reserve1 = Raw(u[2], TrueDecimals(pr.t1)),
                          !.info0 = getTokenInfoCall(tokenCache, Addr(pr.t0)),
                          !.info1 = getTokenInfoCall(tokenCache, Addr(pr.t1))]]
        /\ lastOp' = Op("step")
        /\ UNCHANGED nonStoreVars
        /\ ret' = NoRet
        /\ UNCHANGED <<now, poolsMap, tokenPools, tokenCache, currentPoolIndices,
                       lastProfitFound, totalPools, RANDOM_END>>

\* A catch block that drops the record of the pair that failed to load.
CatchStoreDropping(pm, pairAddress) == [x \in DOMAIN pm \ {pairAddress} |-> pm[x]]

\* What the catch block of loadPoolData does to the store.
CatchStore(pm, pairAddress) == pm

\* One of the four reads rejects: the catch block logs and starts the 1000 ms wait.
ReadsFail(i) ==
    /\ loads[i].pc = "reads"
    /\ loads' = [loads EXCEPT ![i] = [@ EXCEPT !.pc = "delay", !.wake = now + 1000]]
    /\ poolsMap' = CatchStore(poolsMap, loads[i].pair)
    /\ lastOp' = Op("step")
    /\ UNCHANGED nonStoreVars
    /\ ret' = NoRet
    /\ UNCHANGED <<now, tokenPools, tokenCache, currentPoolIndices,
                   lastProfitFound, totalPools, RANDOM_END>>

\* The wait is over: loadPoolData returns null.
DelayReturn(i) ==
    /\ loads[i].pc = "delay"
    /\ now >= loads[i].wake
    /\ loads' = [loads EXCEPT ![i] = IdleLoad]
    /\ ret' = [kind |-> "error", pair |-> loads[i].pair, value |-> NullPool]
    /\ lastOp' = Op("step")
    /\ UNCHANGED nonStoreVars
    /\ UNCHANGED <<now, poolsMap, tokenPools, tokenCache, currentPoolIndices,
                   lastProfitFound, totalPools, RANDOM_END>>

\* A decimals() read whose fallback is no decimals at all.
DecimalsOrNone(id, decimalsOk) == IF decimalsOk THEN TrueDecimals(id) ELSE 0

\* token.decimals().catch(() => 18)
DecimalsOr18(id, decimalsOk) == IF decimalsOk THEN TrueDecimals(id) ELSE 18

\* name(), symbol() and decimals() of one token settle, each with its own
\* fallback; the entry is written to the cache.
TokenInfoReturn(i, k, symbolOk, decimalsOk) ==
    LET c       == loads[i]
        address == IF k = 0 THEN c.token0 ELSE c.token1
        info    == [got |-> TRUE,
                    symbol |-> IF symbolOk THEN address.id ELSE UNKNOW_TOKEN_SYMBOL,
                    decimals |-> DecimalsOr18(address.id, decimalsOk)]
    IN  /\ c.pc = "tokens"
        /\ (symbolOk /\ decimalsOk) \/ address.id \in RevertingTokens
        /\ ~(IF k = 0 THEN c.info0 ELSE c.info1).got
        /\ tokenCache' = MapSet(tokenCache, toLowerCase(address),
                                [symbol |-> info.symbol, decimals |-> info.decimals])
        /\ loads' = [loads EXCEPT ![i] =
                IF k = 0 THEN [c EXCEPT !.info0 = info] ELSE [c EXCEPT !.info1 = info]]
        /\ lastOp' = Op("step")
        /\ UNCHANGED nonStoreVars
        /\ ret' = NoRet
        /\ UNCHANGED <<now, poolsMap, tokenPools, currentPoolIndices,
                       lastProfitFound, totalPools, RANDOM_END>>

\* Both token infos are there: the unknown-symbol check, then the record is
\* built, saved and indexed.
LoadFinish(i) ==
    LET c == loads[i]
        poolData == BuildPoolData(c.pair, c.index, c.token0, c.token1,
                                  c.reserve0, c.reserve1, c.info0, c.info1, now)
    IN  /\ c.pc = "tokens"
        /\ c.info0.got /\ c.info1.got
        /\ loads' = [loads EXCEPT ![i] = IdleLoad]
        /\ lastOp' = Op("step")
        /\ UNCHANGED nonStoreVars
        /\ IF HasUnknownSymbol(c.info0, c.info1)
           THEN /\ ret' = [kind |-> "unknown", pair |-> c.pair, value |-> NullPool]
                /\ UNCHANGED <<poolsMap, tokenPools>>
           ELSE /\ poolsMap' = MapSet(poolsMap, c.pair, poolData)
                /\ tokenPools' = updateTokenPoolsMap(
                        updateTokenPoolsMap(tokenPools, toLowerCase(c.token0), c.pair),
                        toLowerCase(c.token1), c.pair)
                /\ ret' = [kind |-> "stored", pair |-> c.pair, value |-> poolData]
        /\ UNCHANGED <<now, tokenCache, currentPoolIndices,
                       lastProfitFound, totalPools, RANDOM_END>>

\* What resetPoolSelection leaves of the token-to-pools index.
ResetTokenPools(tp) == tp

\* The profit timer left as it was.
ProfitTimerKept(t, last) == last

\* What resetPoolSelection, run at instant t, leaves in lastProfitFound.
ResetProfitTimer(t, last) == t

resetPoolSelection ==
    /\ poolsMap' = EmptyMap
    /\ tokenPools' = ResetTokenPools(tokenPools)
    /\ currentPoolIndices' \in
          generateRandomPoolIndices(POOLS_TO_SAMPLE, RANDOM_START, RANDOM_END, totalPools)
    /\ lastProfitFound' = ResetProfitTimer(now, lastProfitFound)
    /\ lastOp' = Op("resetPoolSelection")
    /\ UNCHANGED nonStoreVars
    /\ ret' = NoRet
    /\ UNCHANGED <<now, tokenCache, totalPools, RANDOM_END, loads>>

IndexArgs(pid) == {-1, RegistryIndex(pid)}

StoreNext ==
    \/ Advance
    \/ UpdateTotalPools
    \/ \E pid \in StorePairs, force \in BOOLEAN :
          \E index \in IndexArgs(pid) : LoadPoolDataCall(pid, index, force)
    \/ \E i \in Slots : ReadsReturn(i)
    \/ \E i \in Slots : ReadsFail(i)
    \/ \E i \in Slots : DelayReturn(i)
    \/ \E i \in Slots, k \in {0, 1}, symbolOk \in BOOLEAN, decimalsOk \in BOOLEAN :
          TokenInfoReturn(i, k, symbolOk, decimalsOk)
    \/ \E i \in Slots : LoadFinish(i)
    \/ resetPoolSelection

Init == StoreInit /\ HistIdle /\ SchedIdle /\ FinderIdle /\ FlashSwapInit

Spec == Init /\ [][StoreNext]_vars

-----------------------------------------------------------------------------
(* Properties of the pool state store.                                      *)

NoUnknownStored ==
    \A a \in DOMAIN poolsMap :
        /\ poolsMap[a].token0.symbol # UNKNOW_TOKEN_SYMBOL
        /\ poolsMap[a].token1.symbol # UNKNOW_TOKEN_SYMBOL

UnknownReturnsNull ==
    /\ \A i \in Slots :
          (/\ loads[i].pc = "tokens" /\ loads'[i].pc = "idle"
           /\ (loads[i].info0.symbol = UNKNOW_TOKEN_SYMBOL
                 \/ loads[i].info1.symbol = UNKNOW_TOKEN_SYMBOL))
          => ret'.kind = "unknown"
    /\ ret'.kind = "unknown" =>
          /\ ret'.value = NullPool
          /\ poolsMap' = poolsMap
          /\ tokenPools' = tokenPools

\* C6: the pool store never holds a record one of whose tokens has the
\* unknown-symbol sentinel, and a loadPoolData call one of whose tokens resolves
\* to the sentinel returns null and leaves the pool store and the token-to-pools
\* index as they were.
C6_UnknownSymbolNeverStored == []NoUnknownStored /\ [][UnknownReturnsNull]_vars

\* A load of CAKE/XTK has just returned null for the unknown symbol of XTK while
\* the store holds another record.
C6_Witness ==
    /\ ret.kind = "unknown"
    /\ ret.pair = toLowerCase(Addr("P_CAKE_XTK"))
    /\ toLowerCase(Addr("XTK")) \in DOMAIN tokenCache
    /\ tokenCache[toLowerCase(Addr("XTK"))].symbol = UNKNOW_TOKEN_SYMBOL
    /\ toLowerCase(Addr("P_BUSD_CAKE")) \in DOMAIN poolsMap

FailedReadKeepsStore ==
    /\ ret'.kind = "error" =>
          \E i \in Slots : loads[i].pc = "delay" /\ loads'[i].pc = "idle"
    /\ \A i \in Slots :
        /\ (loads[i].pc = "reads" /\ loads'[i].pc = "delay") =>
              /\ loads'[i].wake = now + 1000
              /\ poolsMap' = poolsMap
              /\ tokenPools' = tokenPools
              /\ ret'.kind = "none"
        /\ (loads[i].pc = "delay" /\ loads'[i].pc # "delay") =>
              /\ now >= loads[i].wake
              /\ ret'.kind = "error"
              /\ ret'.pair = loads[i].pair
              /\ ret'.value = NullPool
              /\ poolsMap' = poolsMap
              /\ tokenPools' = tokenPools

\* C7: when a read of the pair fails, loadPoolData returns null once the fixed
\* 1000 ms delay is over, and neither the failure nor the return changes the
\* pool store or the token-to-pools index: nothing is written and a record
\* already stored for the address is kept as it is.
C7_FailedReadReturnsNull == [][FailedReadKeepsStore]_vars

\* A refresh of a stored pair has failed and returned null, and the record
\* stored before is still there, with its earlier timestamp.
C7_Witness ==
    /\ ret.kind = "error"
    /\ ret.pair \in DOMAIN poolsMap
    /\ poolsMap[ret.pair].updated < now

UnexpiredCallHits ==
    (/\ lastOp'.op = "loadPoolData"
     /\ ~lastOp'.force
     /\ lastOp'.pair \in DOMAIN poolsMap
     /\ (lastOp'.index = -1 =>
            now - poolsMap[lastOp'.pair].updated < PRIORITY_REFRESH_INTERVAL)
     /\ (lastOp'.index # -1 =>
            now - poolsMap[lastOp'.pair].updated < FULL_REFRESH_INTERVAL))
    => /\ ret' = [kind |-> "cached", pair |-> lastOp'.pair,
                  value |-> poolsMap[lastOp'.pair]]
       /\ UNCHANGED <<now, poolsMap, tokenPools, tokenCache, loads>>

\* C8: a loadPoolData call without forceRefresh for an address whose stored
\* record is younger than the interval its index argument selects (the short
\* one for -1, the long one otherwise) returns the stored record, issues no
\* read and leaves store, index and token cache unchanged, so that repeating
\* the call while the record is unexpired gives the same result.
C8_UnexpiredLoadIsCached == [][UnexpiredCallHits]_vars

\* A call with a registry index has returned the stored record at an age at
\* which a call with -1 would have refreshed it.
C8_Witness ==
    /\ ret.kind = "cached"
    /\ lastOp.op = "loadPoolData"
    /\ lastOp.index # -1
    /\ now - ret.value.updated >= PRIORITY_REFRESH_INTERVAL
    /\ ret.value = poolsMap[ret.pair]

\* C9: right after resetPoolSelection the pool store is empty, the
\* token-to-pools index is empty, currentPoolIndices is a freshly generated
\* sample and lastProfitFound is the time of the reset.
C9_ResetClearsStoreAndIndex ==
    lastOp.op = "resetPoolSelection" =>
        /\ poolsMap = EmptyMap
        /\ tokenPools = EmptyMap
        /\ currentPoolIndices \in
              generateRandomPoolIndices(POOLS_TO_SAMPLE, RANDOM_START, RANDOM_END, totalPools)
        /\ lastProfitFound = now

\* C9, what resetPoolSelection does establish: everything the claim states but
\* the empty token-to-pools index.
C9_ResetClearsStore ==
    lastOp.op = "resetPoolSelection" =>
        /\ poolsMap = EmptyMap
        /\ currentPoolIndices \in
              generateRandomPoolIndices(POOLS_TO_SAMPLE, RANDOM_START, RANDOM_END, totalPools)
        /\ lastProfitFound = now

\* resetPoolSelection has just returned and the token-to-pools index still
\* lists a pair of the store it emptied.
C9_Witness ==
    /\ lastOp.op = "resetPoolSelection"
    /\ poolsMap = EmptyMap
    /\ \E t \in DOMAIN tokenPools : tokenPools[t] # {}

\* The token info a load got for its k-th token has the token's own symbol
\* and not the token's own decimals: only the decimals() read failed.
OnlyDecimalsFailed(address, info) ==
    /\ info.got
    /\ info.symbol = address.id
    /\ info.decimals # TrueDecimals(address.id)

\* The record of the pair that load c stored is in the store and in the index
\* entries of both tokens.
StoredAndIndexed(c) ==
    /\ ret'.kind = "stored"
    /\ c.pair \in DOMAIN poolsMap'
    /\ poolsMap'[c.pair] = ret'.value
    /\ \A t \in {toLowerCase(c.token0), toLowerCase(c.token1)} :
        t \in DOMAIN tokenPools' /\ c.pair \in tokenPools'[t]

\* loadPoolData finishes a load in which only the decimals() read of a token
\* failed and the other token has its own symbol: the token has 18 decimals
\* and its own symbol in the cache and in the record, and the record is
\* stored and indexed.
DecimalsFallbackStored ==
    \A i \in DOMAIN loads :
        LET c == loads[i] IN
        /\ c.pc = "tokens" /\ loads'[i].pc = "idle"
        /\ c.info0.symbol = c.token0.id /\ c.info1.symbol = c.token1.id
        /\ OnlyDecimalsFailed(c.token0, c.info0) \/ OnlyDecimalsFailed(c.token1, c.info1)
        => /\ StoredAndIndexed(c)
           /\ OnlyDecimalsFailed(c.token0, c.info0) =>
                 /\ c.info0.decimals = 18
                 /\ poolsMap'[c.pair].token0.decimals = 18
                 /\ poolsMap'[c.pair].token0.symbol = c.token0.id
           /\ OnlyDecimalsFailed(c.token1, c.info1) =>
                 /\ c.info1.decimals = 18
                 /\ poolsMap'[c.pair].token1.decimals = 18
                 /\ poolsMap'[c.pair].token1.symbol = c.token1.id

\* C16: when only the decimals() read of a token fails, the token resolves
\* with 18 decimals and its own symbol, and loadPoolData still stores and
\* indexes a pool that holds it.
C16_DecimalsFallbackPoolStored == [][DecimalsFallbackStored]_vars

\* loadPoolData has just stored CAKE/XTK with 18 decimals for XTK, whose
\* decimals() answers 8 when it answers, under XTK's own symbol.
C16_Witness ==
    /\ ret.kind = "stored"
    /\ ret.value.token1.symbol = "XTK"
    /\ ret.value.token1.decimals = 18
    /\ TrueDecimals("XTK") # 18
    /\ ret.pair \in DOMAIN poolsMap
    /\ toLowerCase(Addr("XTK")) \in DOMAIN tokenPools
    /\ ret.pair \in tokenPools[toLowerCase(Addr("XTK"))]
    /\ tokenCache[toLowerCase(Addr("XTK"))] = [symbol |-> "XTK", decimals |-> 18]

\* The token addresses of a pool record.
TokensOf(pool) == {pool.token0.address, pool.token1.address}

-----------------------------------------------------------------------------
(* The opportunity history file (utils-file.ts).  An entry is a timestamp   *)
(* and the opportunities of one scan; the opportunities of the scan saved   *)
(* at instant t are <<t>>.                                                  *)

MAX_HISTORY_ENTRIES == 20

\* The non-empty saves of one run.
MaxSaves == 22

Entry(t, opportunities) == [timestamp |-> t, opportunities |-> opportunities]

NoLatest == [found |-> FALSE, opportunities |-> <<>>]

\* The file is absent, is not JSON, holds one entry in the old single-entry
\* format, or holds {history: [...]}.
FileKinds == {"absent", "corrupt", "old", "history"}

\* What saveArbitrageOpportunities reads: the history array, the old format's
\* single entry as a history of one, and nothing from a missing or unparsable file.
ReadHistory(f) == IF f.kind \in {"old", "history"} THEN f.history ELSE <<>>

RECURSIVE InsertDescending(_, _)
InsertDescending(e, h) ==
    IF h = <<>> THEN <<e>>
    ELSE IF Head(h).timestamp >= e.timestamp
         THEN <<Head(h)>> \o InsertDescending(e, Tail(h))
         ELSE <<e>> \o h

\* history.sort((a, b) => time(b) - time(a)): descending by timestamp, stable.
RECURSIVE SortDescending(_)
SortDescending(h) ==
    IF h = <<>> THEN <<>>
    ELSE InsertDescending(h[Len(h)], SortDescending(SubSeq(h, 1, Len(h) - 1)))

\* Array.prototype.slice(0, n)
SliceFirst(h, n) == SubSeq(h, 1, Min(n, Len(h)))

\* Array.prototype.slice(-n)
SliceLast(h, n) == SubSeq(h, Max(1, Len(h) - n + 1), Len(h))

\* if (history.length > MAX_HISTORY_ENTRIES) history = history.slice(-MAX_HISTORY_ENTRIES)
KeepEntries(h) ==
    IF Len(h) > MAX_HISTORY_ENTRIES THEN SliceLast(h, MAX_HISTORY_ENTRIES) ELSE h

\* The history file and clock of a run that saves: the file as an earlier run
\* left it, an old-format file holding the entry saved at instant 0.
HistInit ==
    /\ \E k \in {"absent", "corrupt", "old"} :
          /\ file = [kind |-> k,
                     history |-> IF k = "old" THEN <<Entry(0, <<0>>)>> ELSE <<>>]
          /\ saved = IF k = "old" THEN <<Entry(0, <<0>>)>> ELSE <<>>
    /\ latest = NoLatest

\* saveArbitrageOpportunities(opportunities, limit), called at the instant the
\* clock has reached since the call before.
saveArbitrageOpportunities(opportunities, limit) ==
    LET entry == Entry(now + 1, SliceFirst(opportunities, limit)) IN
    /\ lastOp' = Op("saveArbitrageOpportunities")
    /\ IF opportunities = <<>>
       THEN UNCHANGED <<now, file, saved>>
       ELSE /\ Len(saved) < MaxSaves
            /\ now' = now + 1
            /\ file' = [kind |-> "history",
                        history |-> KeepEntries(SortDescending(
                                        Append(ReadHistory(file), entry)))]
            /\ saved' = Append(saved, entry)
    /\ UNCHANGED <<poolsMap, tokenPools, tokenCache, currentPoolIndices,
                   lastProfitFound, totalPools, RANDOM_END, loads, ret, latest>>
    /\ UNCHANGED <<schedVars, finderVars, flashSwap>>

getLatestOpportunities ==
    /\ lastOp' = Op("getLatestOpportunities")
    /\ latest' =
          IF file.kind = "history" /\ Len(file.history) > 0
          THEN [found |-> TRUE,
                opportunities |-> file.history[Len(file.history)].opportunities]
          ELSE IF file.kind = "old"
          THEN [found |-> TRUE, opportunities |-> file.history[1].opportunities]
          ELSE [found |-> FALSE, opportunities |-> <<>>]
    /\ UNCHANGED <<storeVars, file, saved>>
    /\ UNCHANGED <<schedVars, finderVars, flashSwap>>

HistoryNext ==
    \/ \E opportunities \in {<<>>, <<now + 1>>} :
          saveArbitrageOpportunities(opportunities, 100)
    \/ getLatestOpportunities

InitHistory == StoreInit /\ HistInit /\ SchedIdle /\ FinderIdle /\ FlashSwapInit

SpecHistory == InitHistory /\ [][HistoryNext]_vars

\* The n most recently saved of the entries es (oldest first), newest first.
NewestFirst(es, n) == [i \in 1..n |-> es[Len(es) - i + 1]]

\* C10: after k non-empty saves with increasing timestamps the file holds
\* exactly the min(k, MAX_HISTORY_ENTRIES) most recently saved entries, newest
\* first, and so always the entry just saved.
C10_HistoryKeepsMostRecent ==
    saved # <<>> =>
        /\ file.kind \in {"old", "history"}
        /\ file.history = NewestFirst(saved, Min(Len(saved), MAX_HISTORY_ENTRIES))

\* A save has just returned and the entry it was to write is not in the file.
C10_Witness ==
    /\ lastOp.op = "saveArbitrageOpportunities"
    /\ Len(saved) > MAX_HISTORY_ENTRIES
    /\ file.kind = "history"
    /\ Len(file.history) = MAX_HISTORY_ENTRIES
    /\ \A i \in DOMAIN file.history : file.history[i] # saved[Len(saved)]
    /\ file.history[1].timestamp < saved[Len(saved)].timestamp

\* C10, what the file does hold: the entries saved first, newest of them first.
C10_HistoryKeepsOldest ==
    saved # <<>> =>
        LET m == Min(Len(saved), MAX_HISTORY_ENTRIES) IN
        file.history = [i \in 1..m |-> saved[m - i + 1]]

\* C29: after any sequence of saves getLatestOpportunities returns the
\* opportunities of the entry saved most recently, the one with the greatest
\* timestamp, and null when no history file exists.
C29_LatestIsMostRecentlySaved ==
    lastOp.op = "getLatestOpportunities" =>
        /\ saved # <<>> =>
            /\ latest.found
            /\ latest.opportunities = saved[Len(saved)].opportunities
        /\ file.kind = "absent" => ~latest.found

\* C29, what holds: getLatestOpportunities returns the opportunities of the
\* entry saved first, the one with the least timestamp, and null when the file
\* is missing or cannot be parsed.
C29_LatestIsFirstSaved ==
    lastOp.op = "getLatestOpportunities" =>
        /\ saved # <<>> =>
            /\ latest.found
            /\ latest.opportunities = saved[1].opportunities
        /\ file.kind \in {"absent", "corrupt"} => ~latest.found

\* getLatestOpportunities has returned after two saves, and what it returned is
\* not what the second save wrote.
C29_Witness ==
    /\ lastOp.op = "getLatestOpportunities"
    /\ Len(saved) = 2
    /\ latest.found
    /\ latest.opportunities = saved[1].opportunities
    /\ latest.opportunities # saved[2].opportunities

-----------------------------------------------------------------------------
(* The scheduler (monitor.ts): loadInitialPoolData and the three timers of  *)
(* startMonitoring.  Each async body is cut at its awaits.  A loadPoolData  *)
(* call of a batch decides at the call whether it returns the stored record *)
(* and, if not, writes its record when the batch resolves; the reads of the *)
(* scheduler's batches succeed.                                             *)

RESET_INTERVAL == 900000

\* Pools per batch of the full refresh and of the priority refresh.
BATCH_SIZE == 2

PRIORITY_BATCH_SIZE == 1

\* The instants at which the scheduler looks at the clock.
SchedInstants == {0, 5000, 1000000}

\* The pairs of priority tokens for which factory.getPair answers a pair.
PriorityPairsOnChain == {"P_USDT_BUSD"}

Loaders == 1..MaxLoaders

TimerOps == {"resetTimer", "fullTimer", "priorityTimer"}

\* The record a successful loadPoolData(pairAddress, index) stores at instant t.
PoolRecord(pairAddress, index, t) ==
    LET pr == ChainPairs[PairOf(pairAddress.id)]
        u  == ChainReserves(t)
    IN  BuildPoolData(pairAddress, index, Addr(pr.t0), Addr(pr.t1),
                      Raw(u[1], TrueDecimals(pr.t0)), Raw(u[2], TrueDecimals(pr.t1)),
                      [got |-> TRUE, symbol |-> pr.t0, decimals |-> TrueDecimals(pr.t0)],
                      [got |-> TRUE, symbol |-> pr.t1, decimals |-> TrueDecimals(pr.t1)],
                      t)

\* poolsMap.set of every load of a batch that did not return the stored record.
WriteAll(pm, writes, t) ==
    [a \in DOMAIN pm \cup {w.pair : w \in writes} |->
        IF \E w \in writes : w.pair = a
        THEN PoolRecord(a, (CHOOSE w \in writes : w.pair = a).index, t)
        ELSE pm[a]]

\* updateTokenPoolsMap for both tokens of every pair written.
RECURSIVE IndexAll(_, _)
IndexAll(tp, pairs) ==
    IF pairs = {} THEN tp
    ELSE LET a  == CHOOSE x \in pairs : TRUE
             pr == ChainPairs[PairOf(a.id)]
         IN  IndexAll(updateTokenPoolsMap(
                          updateTokenPoolsMap(tp, toLowerCase(Addr(pr.t0)), a),
                          toLowerCase(Addr(pr.t1)), a),
                      pairs \ {a})

\* getTokenInfo for both tokens of every pair written.
CacheAll(tc, pairs) ==
    LET tokens == UNION {{toLowerCase(Addr(ChainPairs[PairOf(a.id)].t0)),
                          toLowerCase(Addr(ChainPairs[PairOf(a.id)].t1))} : a \in pairs}
    IN  [x \in DOMAIN tc \cup tokens |->
            IF x \in DOMAIN tc THEN tc[x]
            ELSE [symbol |-> x.id, decimals |-> TrueDecimals(x.id)]]

\* The loads of calls, each [pair, index, force], that go to the chain.
Misses(pm, calls, t) ==
    {[pair |-> c.pair, index |-> c.index] :
        c \in {d \in calls : ~CacheHit(pm, d.pair, d.index, d.force, t)}}

\* Array.from(poolsMap.keys()), in registry order.
RECURSIVE KeysSeq(_)
KeysSeq(S) ==
    IF S = {} THEN <<>>
    ELSE LET a == CHOOSE x \in S : \A y \in S : PairOf(x.id) <= PairOf(y.id)
         IN  <<a>> \o KeysSeq(S \ {a})

\* A batch that takes every pool from position i to the end of the snapshot.
BatchToEnd(pools, i, size) == {pools[j] : j \in i..Len(pools)}

\* The pools of the batch that starts at position i.
Batch(pools, i, size) == {pools[j] : j \in i..Min(i + size - 1, Len(pools))}

LoadInProgress == \E l \in Loaders : loaders[l].pc # "idle"

\* A run of the monitor: config.DEBUG is a switch of the configuration.
SchedInit ==
    /\ DEBUG \in BOOLEAN
    /\ scanPaused = FALSE
    /\ fullScanRunning = FALSE
    /\ monitor = "new"
    /\ loaders = [l \in Loaders |-> IdleLoader]
    /\ fullPasses = [p \in 1..MaxFullPasses |-> IdlePass]
    /\ priorityPasses = [p \in 1..MaxPriorityPasses |-> IdlePass]
    /\ resets = <<>>

SchedAdvance ==
    /\ \E t \in SchedInstants : t > now /\ now' = t
    /\ lastOp' = Op("step")
    /\ UNCHANGED <<poolsMap, tokenPools, tokenCache, currentPoolIndices,
                   lastProfitFound, totalPools, RANDOM_END, loads, ret>>
    /\ UNCHANGED <<histVars, flashSwap, finderVars, schedVars>>

\* loadInitialPoolData up to its first await: scanPaused = true, then
\* allPairsLength() is called.
LoadStarts(l, origin) ==
    /\ scanPaused' = TRUE
    /\ loaders' = [loaders EXCEPT ![l] = [pc |-> "length", origin |-> origin]]

\* A startMonitoring that sets its timers without waiting for the load.
startMonitoringWithoutAwait ==
    /\ monitor = "new"
    /\ monitor' = "running"
    /\ LoadStarts(1, "initial")
    /\ lastOp' = Op("startMonitoring")
    /\ UNCHANGED <<storeVars, histVars, flashSwap, finderVars, DEBUG, resets, fullScanRunning, fullPasses,
                   priorityPasses>>

\* startMonitoring calls loadInitialPoolData.
startMonitoring ==
    /\ monitor = "new"
    /\ monitor' = "loading"
    /\ LoadStarts(1, "initial")
    /\ lastOp' = Op("startMonitoring")
    /\ UNCHANGED <<storeVars, histVars, flashSwap, finderVars, DEBUG, resets, fullScanRunning, fullPasses,
                   priorityPasses>>

\* allPairsLength() answers: the totals are updated, the sample is drawn, and
\* the priority pairs are looked up and their loads called.
LengthReturns(l) ==
    /\ loaders[l].pc = "length"
    /\ totalPools' = Len(ChainPairs)
    /\ RANDOM_END' = Len(ChainPairs) - 1
    /\ currentPoolIndices' \in
          generateRandomPoolIndices(POOLS_TO_SAMPLE, RANDOM_START,
                                    Len(ChainPairs) - 1, Len(ChainPairs))
    /\ loaders' = [loaders EXCEPT ![l].pc = "priority"]
    /\ lastOp' = Op("step")
    /\ UNCHANGED <<now, poolsMap, tokenPools, tokenCache, lastProfitFound, loads, ret>>
    /\ UNCHANGED <<histVars, flashSwap, finderVars, DEBUG, resets, scanPaused, fullScanRunning, monitor,
                   fullPasses, priorityPasses>>

\* The catch block of loadInitialPoolData: resetPoolSelection, then the 5 s wait.
LoadCatch(l, pm) ==
    /\ poolsMap' = EmptyMap
    /\ currentPoolIndices' \in
          generateRandomPoolIndices(POOLS_TO_SAMPLE, RANDOM_START, RANDOM_END', totalPools')
    /\ lastProfitFound' = ResetProfitTimer(now, lastProfitFound)
    /\ loaders' = [loaders EXCEPT ![l].pc = "backoff"]

\* allPairsLength() rejects.
LengthFails(l) ==
    /\ loaders[l].pc = "length"
    /\ UNCHANGED <<totalPools, RANDOM_END>>
    /\ LoadCatch(l, poolsMap)
    /\ lastOp' = Op("step")
    /\ UNCHANGED <<now, tokenPools, tokenCache, loads, ret>>
    /\ UNCHANGED <<histVars, flashSwap, finderVars, DEBUG, resets, scanPaused, fullScanRunning, monitor,
                   fullPasses, priorityPasses>>

\* The wait of the catch block is over: finally sets scanPaused = false and the
\* while loop starts the next attempt.
BackoffEnds(l) ==
    /\ loaders[l].pc = "backoff"
    /\ scanPaused' = FALSE
    /\ loaders' = [loaders EXCEPT ![l].pc = "length"]
    /\ lastOp' = Op("step")
    /\ UNCHANGED <<storeVars, histVars, flashSwap, finderVars, DEBUG, resets, fullScanRunning, monitor,
                   fullPasses, priorityPasses>>

\* The priority pairs are loaded with index -1; the sampled pools are called.
\* A load whose pair reads reject (rejected: the pairs it happens to) is caught
\* in loadPoolData and its .catch here: it stores nothing and caches no token.
PriorityLoaded(l, rejected) ==
    LET calls  == {[pair |-> toLowerCase(Addr(pid)), index |-> -1, force |-> FALSE] :
                      pid \in PriorityPairsOnChain \ rejected}
        writes == Misses(poolsMap, calls, now)
        pairs  == {w.pair : w \in writes}
    IN  /\ loaders[l].pc = "priority"
        /\ poolsMap' = WriteAll(poolsMap, writes, now)
        /\ tokenPools' = IndexAll(tokenPools, pairs)
        /\ tokenCache' = CacheAll(tokenCache, pairs)
        /\ loaders' = [loaders EXCEPT ![l].pc = "random"]
        /\ lastOp' = Op("step")
        /\ UNCHANGED <<now, currentPoolIndices, lastProfitFound, totalPools,
                       RANDOM_END, loads, ret>>
        /\ UNCHANGED <<histVars, flashSwap, finderVars, DEBUG, resets, scanPaused, fullScanRunning, monitor,
                       fullPasses, priorityPasses>>

\* The sampled pools are loaded by index, a rejected read leaving nothing
\* behind (loadPoolByIndex returns null); then the stablecoin log line, which
\* throws when a stablecoin is not in the token cache; then success.
RandomLoaded(l, rejected) ==
    LET calls  == {[pair |-> toLowerCase(Addr(ChainPairs[i + 1].id)), index |-> i,
                    force |-> FALSE] :
                      i \in {j \in currentPoolIndices \ rejected :
                                j >= 0 /\ j < Len(ChainPairs)}}
        writes == Misses(poolsMap, calls, now)
        pairs  == {w.pair : w \in writes}
        tc     == CacheAll(tokenCache, pairs)
    IN  /\ loaders[l].pc = "random"
        /\ tokenPools' = IndexAll(tokenPools, pairs)
        /\ tokenCache' = tc
        /\ lastOp' = Op("step")
        /\ UNCHANGED <<totalPools, RANDOM_END>>
        /\ IF \A st \in STABLECOINS : st \in DOMAIN tc
           THEN /\ poolsMap' = WriteAll(poolsMap, writes, now)
                /\ scanPaused' = FALSE
                /\ loaders' = [loaders EXCEPT ![l] = IdleLoader]
                /\ monitor' = IF loaders[l].origin = "initial" THEN "running" ELSE monitor
                /\ UNCHANGED <<currentPoolIndices, lastProfitFound>>
           ELSE /\ LoadCatch(l, poolsMap)
                /\ UNCHANGED <<scanPaused, monitor>>
        /\ UNCHANGED <<now, loads, ret>>
        /\ UNCHANGED <<histVars, flashSwap, finderVars, DEBUG, resets, fullScanRunning, fullPasses, priorityPasses>>

\* The reset-check timer fires and its body passes the guards: the pool
\* selection is reset and loadInitialPoolData is called.
ResetTimer(l) ==
    /\ monitor = "running"
    /\ ~(scanPaused \/ DEBUG)
    /\ now - lastProfitFound > RESET_INTERVAL
    /\ loaders[l].pc = "idle"
    /\ \A k \in 1..(l - 1) : loaders[k].pc # "idle"
    /\ poolsMap' = EmptyMap
    /\ tokenPools' = ResetTokenPools(tokenPools)
    /\ currentPoolIndices' \in
          generateRandomPoolIndices(POOLS_TO_SAMPLE, RANDOM_START, RANDOM_END, totalPools)
    /\ lastProfitFound' = ResetProfitTimer(now, lastProfitFound)
    /\ LoadStarts(l, "reset")
    /\ resets' = Append(resets, now)
    /\ lastOp' = Op("resetTimer")
    /\ UNCHANGED <<now, tokenCache, totalPools, RANDOM_END, loads, ret>>
    /\ UNCHANGED <<histVars, flashSwap, finderVars, DEBUG, fullScanRunning, monitor, fullPasses, priorityPasses>>

\* The full-refresh timer fires and its body passes the guard: fullScanRunning
\* is set and the first batch is called; with no pool in the store the body
\* runs through to its finally.
FullTimer(p) ==
    LET pools == KeysSeq(DOMAIN poolsMap)
        calls == {[pair |-> a, index |-> -1, force |-> FALSE] :
                     a \in Batch(pools, 1, BATCH_SIZE)}
    IN  /\ monitor = "running"
        /\ ~scanPaused
        /\ fullPasses[p].pc = "idle"
        /\ \A q \in 1..(p - 1) : fullPasses[q].pc # "idle"
        /\ IF pools = <<>>
           THEN /\ fullScanRunning' = FALSE
                /\ UNCHANGED fullPasses
           ELSE /\ fullScanRunning' = TRUE
                /\ fullPasses' = [fullPasses EXCEPT ![p] =
                        [pc |-> "batch", pools |-> pools, i |-> 1,
                         writes |-> Misses(poolsMap, calls, now)]]
        /\ lastOp' = Op("fullTimer")
        /\ UNCHANGED <<storeVars, histVars, flashSwap, finderVars, DEBUG, resets, scanPaused, monitor, loaders,
                       priorityPasses>>

\* The priority timer fires and its body passes the guards: the pools with
\* index -1 are collected and the first batch is called with forceRefresh.
PriorityTimer(p) ==
    LET pools == KeysSeq({a \in DOMAIN poolsMap : poolsMap[a].index = -1})
        calls == {[pair |-> a, index |-> -1, force |-> TRUE] :
                     a \in Batch(pools, 1, PRIORITY_BATCH_SIZE)}
    IN  /\ monitor = "running"
        /\ ~(scanPaused \/ fullScanRunning)
        /\ priorityPasses[p].pc = "idle"
        /\ \A q \in 1..(p - 1) : priorityPasses[q].pc # "idle"
        /\ pools # <<>>
        /\ priorityPasses' = [priorityPasses EXCEPT ![p] =
                [pc |-> "batch", pools |-> pools, i |-> 1,
                 writes |-> Misses(poolsMap, calls, now)]]
        /\ lastOp' = Op("priorityTimer")
        /\ UNCHANGED <<storeVars, histVars, flashSwap, finderVars, DEBUG, resets, scanPaused, fullScanRunning,
                       monitor, loaders, fullPasses>>

\* await Promise.all(batch) resolves: the records are written;
\* findArbitrageOpportunities is called.
BatchResolves(pass) ==
    /\ pass.pc = "batch"
    /\ poolsMap' = WriteAll(poolsMap, pass.writes, now)
    /\ tokenPools' = IndexAll(tokenPools, {w.pair : w \in pass.writes})
    /\ tokenCache' = CacheAll(tokenCache, {w.pair : w \in pass.writes})
    /\ lastOp' = Op("step")
    /\ UNCHANGED <<now, currentPoolIndices, lastProfitFound, totalPools,
                   RANDOM_END, loads, ret>>
    /\ UNCHANGED <<histVars, flashSwap, finderVars, DEBUG, resets, scanPaused, monitor, loaders>>

FullBatchResolves(p) ==
    /\ BatchResolves(fullPasses[p])
    /\ fullPasses' = [fullPasses EXCEPT ![p].pc = "finder", ![p].writes = {}]
    /\ UNCHANGED <<fullScanRunning, priorityPasses>>

PriorityBatchResolves(p) ==
    /\ BatchResolves(priorityPasses[p])
    /\ priorityPasses' = [priorityPasses EXCEPT ![p].pc = "finder", ![p].writes = {}]
    /\ UNCHANGED <<fullScanRunning, fullPasses>>

\* findArbitrageOpportunities resolves, having found a profitable cycle or
\* not; the wait between batches starts, or the loop ends.
FinderResolves(pass, found) ==
    /\ pass.pc = "finder"
    /\ lastProfitFound' = IF found THEN now ELSE lastProfitFound
    /\ lastOp' = Op("step")
    /\ UNCHANGED <<now, poolsMap, tokenPools, tokenCache, currentPoolIndices,
                   totalPools, RANDOM_END, loads, ret>>
    /\ UNCHANGED <<histVars, flashSwap, finderVars, DEBUG, resets, scanPaused, monitor, loaders>>

FullFinderResolves(p, found) ==
    /\ FinderResolves(fullPasses[p], found)
    /\ IF fullPasses[p].i + BATCH_SIZE <= Len(fullPasses[p].pools)
       THEN /\ fullPasses' = [fullPasses EXCEPT ![p].pc = "delay"]
            /\ UNCHANGED fullScanRunning
       ELSE /\ fullPasses' = [fullPasses EXCEPT ![p] = IdlePass]
            /\ fullScanRunning' = FALSE
    /\ UNCHANGED priorityPasses

PriorityFinderResolves(p, found) ==
    /\ FinderResolves(priorityPasses[p], found)
    /\ IF priorityPasses[p].i + PRIORITY_BATCH_SIZE <= Len(priorityPasses[p].pools)
       THEN priorityPasses' = [priorityPasses EXCEPT ![p].pc = "delay"]
       ELSE priorityPasses' = [priorityPasses EXCEPT ![p] = IdlePass]
    /\ UNCHANGED <<fullScanRunning, fullPasses>>

\* The wait between batches is over: the next batch is called.
NextBatch(pass, size, force) ==
    LET i     == pass.i + size
        calls == {[pair |-> a, index |-> -1, force |-> force] :
                     a \in Batch(pass.pools, i, size)}
    IN  [pass EXCEPT !.pc = "batch", !.i = i,
                     !.writes = Misses(poolsMap, calls, now)]

FullDelayEnds(p) ==
    /\ fullPasses[p].pc = "delay"
    /\ fullPasses' = [fullPasses EXCEPT ![p] = NextBatch(@, BATCH_SIZE, FALSE)]
    /\ lastOp' = Op("step")
    /\ UNCHANGED <<storeVars, histVars, flashSwap, finderVars, DEBUG, resets, scanPaused, fullScanRunning, monitor,
                   loaders, priorityPasses>>

PriorityDelayEnds(p) ==
    /\ priorityPasses[p].pc = "delay"
    /\ priorityPasses' =
          [priorityPasses EXCEPT ![p] = NextBatch(@, PRIORITY_BATCH_SIZE, TRUE)]
    /\ lastOp' = Op("step")
    /\ UNCHANGED <<storeVars, histVars, flashSwap, finderVars, DEBUG, resets, scanPaused, fullScanRunning, monitor,
                   loaders, fullPasses>>

\* The scheduler with the reads of every load answering; LoadNext below takes
\* the loads whose reads may reject.
SchedNext ==
    \/ SchedAdvance
    \/ startMonitoring
    \/ \E l \in Loaders : LengthReturns(l)
    \/ \E l \in Loaders : LengthFails(l)
    \/ \E l \in Loaders : BackoffEnds(l)
    \/ \E l \in Loaders : PriorityLoaded(l, {})
    \/ \E l \in Loaders : RandomLoaded(l, {})
    \/ \E l \in Loaders : ResetTimer(l)
    \/ \E p \in 1..MaxFullPasses : FullTimer(p)
    \/ \E p \in 1..MaxFullPasses : FullBatchResolves(p)
    \/ \E p \in 1..MaxFullPasses, found \in BOOLEAN : FullFinderResolves(p, found)
    \/ \E p \in 1..MaxFullPasses : FullDelayEnds(p)
    \/ \E p \in 1..MaxPriorityPasses : PriorityTimer(p)
    \/ \E p \in 1..MaxPriorityPasses : PriorityBatchResolves(p)
    \/ \E p \in 1..MaxPriorityPasses, found \in BOOLEAN : PriorityFinderResolves(p, found)
    \/ \E p \in 1..MaxPriorityPasses : PriorityDelayEnds(p)

InitSched == StoreInit /\ HistIdle /\ SchedInit /\ FinderIdle /\ FlashSwapInit

SpecSched == InitSched /\ [][SchedNext]_vars

FullPassInProgress == \E p \in 1..MaxFullPasses : fullPasses[p].pc # "idle"

PriorityPassInProgress == \E p \in 1..MaxPriorityPasses : priorityPasses[p].pc # "idle"

\* The full-refresh passes that may be in progress together where the passes
\* may overlap.
MaxOverlappingPasses == 2

\* The scheduler with the full-refresh timer firing again before the pass it
\* started has ended; the priority timer is switched off
\* (DEBUG_DISABLE_PRIORITY) and the reads of the loads answer.
OverlapNext ==
    \/ SchedAdvance
    \/ startMonitoring
    \/ \E l \in Loaders : LengthReturns(l)
    \/ \E l \in Loaders : PriorityLoaded(l, {})
    \/ \E l \in Loaders : RandomLoaded(l, {})
    \/ \E l \in Loaders : ResetTimer(l)
    \/ \E p \in 1..MaxOverlappingPasses : FullTimer(p)
    \/ \E p \in 1..MaxOverlappingPasses : FullBatchResolves(p)
    \/ \E p \in 1..MaxOverlappingPasses, found \in BOOLEAN : FullFinderResolves(p, found)
    \/ \E p \in 1..MaxOverlappingPasses : FullDelayEnds(p)

OverlapSchedInit ==
    /\ DEBUG \in BOOLEAN
    /\ scanPaused = FALSE
    /\ fullScanRunning = FALSE
    /\ monitor = "new"
    /\ loaders = [l \in Loaders |-> IdleLoader]
    /\ fullPasses = [p \in 1..MaxOverlappingPasses |-> IdlePass]
    /\ priorityPasses = [p \in 1..MaxPriorityPasses |-> IdlePass]
    /\ resets = <<>>

InitOverlap == StoreInit /\ HistIdle /\ OverlapSchedInit /\ FinderIdle /\ FlashSwapInit

SpecOverlap == InitOverlap /\ [][OverlapNext]_vars

\* The full-refresh passes that have started and not ended.
FullPassesInProgress == {p \in DOMAIN fullPasses : fullPasses[p].pc # "idle"}

\* C39: fullScanRunning is true exactly while some full refresh pass is in
\* progress, passes that overlap included.
C39_FullScanRunningWhilePassInProgress ==
    fullScanRunning <=> FullPassesInProgress # {}

\* C39, what holds: fullScanRunning is true only while some full refresh pass
\* is in progress.
C39_FullScanRunningOnlyWhilePassInProgress ==
    fullScanRunning => FullPassesInProgress # {}

\* A second full pass started while the first was in progress, the first has
\* ended since and the second has not.
C39_Witness ==
    /\ fullPasses[1].pc = "idle"
    /\ fullPasses[2].pc # "idle"
    /\ ~fullScanRunning

\* C3: a full refresh pass and a priority refresh pass are never both in
\* progress.
C3_PassesExclusive == ~(FullPassInProgress /\ PriorityPassInProgress)

\* The full-refresh timer has just started a pass while a priority pass is
\* suspended at an await.
C3_Witness ==
    /\ lastOp.op = "fullTimer"
    /\ FullPassInProgress
    /\ PriorityPassInProgress
    /\ fullScanRunning

\* C4: while a loadInitialPoolData call is in progress (attempts and back-off
\* waits included) scanPaused is true, and no timer body passes its guard.
C4_LoadKeepsScanPaused ==
    /\ [](LoadInProgress => scanPaused)
    /\ [][LoadInProgress => lastOp'.op \notin TimerOps]_vars

\* A second attempt of the initial load is in progress with scanPaused false.
C4_Witness ==
    /\ monitor = "loading"
    /\ loaders[1].pc = "length"
    /\ ~scanPaused

\* A step of a full or priority refresh pass.
PassStep == fullPasses' # fullPasses \/ priorityPasses' # priorityPasses

\* C38: from the reset on (scanPaused is set by the reload the reset check
\* starts, and no pass starts with scanPaused set) a refresh pass that is in
\* progress writes no record into the pool store.
C38_PassWritesNothingAfterReset ==
    [][scanPaused /\ resets # <<>> /\ PassStep => poolsMap' = poolsMap]_vars

\* The reload that the reset check started is still waiting for the registry
\* size in its first attempt, so it has loaded no pool yet, and the store that
\* the reset emptied holds a record again: a pass wrote it.
C38_Witness ==
    /\ resets # <<>>
    /\ scanPaused
    /\ \E l \in Loaders : loaders[l] = [pc |-> "length", origin |-> "reset"]
    /\ \A l \in Loaders : loaders[l].pc \in {"idle", "length"}
    /\ FullPassInProgress \/ PriorityPassInProgress
    /\ poolsMap # EmptyMap

\* The liquidity estimate of a stored record follows from its own tokens and
\* reserves.
EstimateOfRecord(p) ==
    LET stable0 == p.token0.address \in STABLECOINS
        stable1 == p.token1.address \in STABLECOINS
        r0      == NumberUnits(p.token0.reserve)
        r1      == NumberUnits(p.token1.reserve)
    IN  /\ (stable0 /\ stable1)
            => (p.liquidityUSD.known /\ p.liquidityUSD.usd = r0 + r1)
        /\ (stable0 /\ ~stable1)
            => (p.liquidityUSD.known /\ p.liquidityUSD.usd = 2 * r0)
        /\ (~stable0 /\ stable1)
            => (p.liquidityUSD.known /\ p.liquidityUSD.usd = 2 * r1)
        /\ (~stable0 /\ ~stable1) => ~p.liquidityUSD.known

\* C22: every stored pool record has as its USD liquidity estimate the sum of
\* both reserves when both tokens are stablecoins, twice the stablecoin-side
\* reserve when exactly one is, and the unknown sentinel otherwise; the estimate
\* is never negative unless it is the sentinel.
C22_LiquidityEstimateByStablecoinSides ==
    \A a \in DOMAIN poolsMap :
        /\ EstimateOfRecord(poolsMap[a])
        /\ ~poolsMap[a].liquidityUSD.known \/ poolsMap[a].liquidityUSD.usd >= 0

\* The store holds a pool of two stablecoins with unequal reserves, a pool with
\* one stablecoin side and a pool with none.
C22_Witness ==
    /\ \E a \in DOMAIN poolsMap :
        /\ poolsMap[a].token0.address \in STABLECOINS
        /\ poolsMap[a].token1.address \in STABLECOINS
        /\ poolsMap[a].token0.reserve # poolsMap[a].token1.reserve
        /\ poolsMap[a].liquidityUSD.usd > 0
    /\ \E a \in DOMAIN poolsMap :
        /\ poolsMap[a].token0.address \notin STABLECOINS
        /\ poolsMap[a].token1.address \in STABLECOINS
    /\ \E a \in DOMAIN poolsMap :
        /\ poolsMap[a].token0.address \notin STABLECOINS
        /\ poolsMap[a].token1.address \notin STABLECOINS

\* The pools loadInitialPoolData loads as pairs of two priority tokens.
LoadedAsPriorityPair(a) == a \in {toLowerCase(Addr(pid)) : pid \in PriorityPairsOnChain}

\* The pools a priority refresh pass in progress force-refreshes.
ForceRefreshed ==
    UNION {{priorityPasses[p].pools[k] : k \in DOMAIN priorityPasses[p].pools} :
              p \in {q \in 1..MaxPriorityPasses : priorityPasses[q].pc # "idle"}}

\* C23: every pool a priority refresh pass force-refreshes was loaded as a pair
\* of two priority tokens, and a pool that entered the store through the random
\* sample keeps its registry index in its record.
C23_PriorityPassOnlyPriorityPairs ==
    /\ \A a \in ForceRefreshed : LoadedAsPriorityPair(a)
    /\ \A a \in DOMAIN poolsMap :
        ~LoadedAsPriorityPair(a) => poolsMap[a].index = RegistryIndex(a.id)

\* C23, what holds: a priority refresh pass force-refreshes the pools whose
\* record has index -1 when the pass starts, and the index of a record is the
\* registry index of its pool or -1.
C23_PriorityPassRefreshesIndexMinusOne ==
    /\ [][lastOp'.op = "priorityTimer" =>
            ForceRefreshed' \ ForceRefreshed
                \subseteq {a \in DOMAIN poolsMap : poolsMap[a].index = -1}]_vars
    /\ [](\A a \in DOMAIN poolsMap :
            poolsMap[a].index \in {-1, RegistryIndex(a.id)})

\* A priority refresh pass is force-refreshing a pool of the random sample
\* whose record a full refresh pass has rewritten with index -1.
C23_Witness ==
    \E a \in ForceRefreshed :
        /\ ~LoadedAsPriorityPair(a)
        /\ a \in DOMAIN poolsMap
        /\ poolsMap[a].index = -1

\* The loadInitialPoolData that startMonitoring awaits has returned, after an
\* attempt that read the registry size and set totalPools from it.
FirstLoadCompleted ==
    /\ monitor = "running"
    /\ totalPools = Len(ChainPairs)
    /\ \A l \in Loaders : loaders[l].pc # "idle" => loaders[l].origin # "initial"

\* C24: no reset-check, full-refresh or priority-refresh timer body runs, and
\* no refresh pass with its finder runs is in progress, before the first
\* loadInitialPoolData has completed an attempt in which the registry size was
\* read and totalPools set from it.
C24_NoScanBeforeFirstLoad ==
    (\/ lastOp.op \in TimerOps
     \/ FullPassInProgress
     \/ PriorityPassInProgress) => FirstLoadCompleted

\* A timer body has run after an initial load whose first attempt failed and
\* was retried: the catch block, not the reset check, has reset the idle timer.
C24_Witness ==
    /\ lastOp.op \in TimerOps
    /\ resets = <<>>
    /\ lastProfitFound > 0
    /\ FirstLoadCompleted

\* The positions of the snapshot at which a batch of the full pass starts.
BatchStarts(pools) == {i \in 1..Len(pools) : (i - 1) % BATCH_SIZE = 0}

\* A full pass in progress: its batch is the slice of the snapshot of at most
\* BATCH_SIZE keys at its position, the loads outstanding are loads of that
\* batch, and none is outstanding once the finder has been called.
FullPassInBatches(pass) ==
    /\ pass.pools # <<>>
    /\ pass.i \in BatchStarts(pass.pools)
    /\ pass.pc = "batch" =>
          /\ {w.pair : w \in pass.writes} \subseteq
                {pass.pools[j] : j \in pass.i..(pass.i + BATCH_SIZE - 1)
                                   \cap 1..Len(pass.pools)}
          /\ Cardinality(pass.writes) <= BATCH_SIZE
    /\ pass.pc \in {"finder", "delay"} => pass.writes = {}

\* The steps of a full pass: the snapshot is kept; the finder is called from
\* the settled batch, the next batch from the wait that follows the finder's
\* return, one batch further on; the pass ends from the finder's return.
FullPassSteps(pass, next) ==
    /\ pass.pc # "idle" /\ next.pc # "idle" => next.pools = pass.pools
    /\ next.pc = "finder" => pass.pc \in {"batch", "finder"}
    /\ next.pc = "delay" => pass.pc \in {"finder", "delay"}
    /\ next.pc = "batch" /\ pass.pc # "idle" /\ next # pass =>
          /\ pass.pc = "delay"
          /\ next.i = pass.i + BATCH_SIZE
    /\ pass.pc # "idle" /\ next.pc = "idle" =>
          /\ pass.pc = "finder"
          /\ pass.i + BATCH_SIZE > Len(pass.pools)
    /\ pass.pc = "idle" /\ next.pc # "idle" =>
          /\ next.pc = "batch"
          /\ next.i = 1
          /\ next.pools = KeysSeq(DOMAIN poolsMap)

\* C31: within one full refresh pass the pools are taken from the snapshot of
\* the store's keys in order, in batches of at most BATCH_SIZE; at most
\* BATCH_SIZE loads of the pass are outstanding; the finder starts after the
\* loads of the batch have settled, the next batch after the finder returned.
C31_FullPassInBatches ==
    /\ [](\A p \in 1..MaxFullPasses :
             fullPasses[p].pc # "idle" => FullPassInBatches(fullPasses[p]))
    /\ [][\A p \in 1..MaxFullPasses :
             FullPassSteps(fullPasses[p], fullPasses'[p])]_vars

\* A full pass is at its second batch, with a load of it outstanding.
C31_Witness ==
    \E p \in 1..MaxFullPasses :
        /\ fullPasses[p].pc = "batch"
        /\ fullPasses[p].i = 1 + BATCH_SIZE
        /\ fullPasses[p].writes # {}

-----------------------------------------------------------------------------
(* Triangular Arbitrage Finder and its dispatch (calculate.ts, send.ts).    *)

\* config.MIN_PROFIT_THRESHOLD, 0.01, in units of 1/10000.
MIN_PROFIT_THRESHOLD == 100

MIN_LIQUIDITY_USD == 50000

\* config.GAS_PRICE, in gwei.
GAS_PRICE == 6

TEST_AMOUNTS == <<1, 100, 1000, 10000>>

\* The least bestAmount sendArbitrage accepts lies above this.
TX_MIN_BEST_AMOUNT == 1

JOB_NAME == "flash"

\* Object.keys(PRIORITY_TOKENS_MUTABLE), in the order of the configuration.
PriorityTokenOrder == <<"WBNB", "BUSD", "USDT", "CAKE">>

\* The pairs the finder's store is drawn from: those whose tokens all have a
\* symbol, which are the ones loadPoolData stores.
FinderPairs == {"P_BUSD_CAKE", "P_CAKE_USDT", "P_USDT_BUSD", "P_WBNB_BUSD", "P_CAKE_WBNB"}

\* What getAmountsOut answers for each test amount, as the last amount out
\* per 1000 in, 0 standing for a call that rejects: the markets a run of the
\* finder may meet.
Markets ==
    {<<0, 0, 0, 0>>,
     <<1007, 1100, 1100, 1100>>,
     <<1100, 1013, 1007, 0>>,
     <<1007, 1007, 1013, 1013>>,
     <<0, 1007, 0, 0>>,
     <<1100, 0, 0, 0>>,
     <<1007, 1013, 1050, 1100>>}

\* The pairs a store of the finder holds: three or more of FinderPairs.
FinderStores == {S \in SUBSET FinderPairs : Cardinality(S) >= 3}

\* The values of the percent argument, in units of 1/10000, when it is given.
InputPercents == {20}

\* A number of tokens in units of 1/10000 of a token.
ToUnits(n) == n * 10000

\* F(x), with x computed once.
With(x, F(_)) == CHOOSE v \in {F(y) : y \in {x}} : TRUE

\* One doubling step of MulDivRem: from h = <<q, r>> with a * (b \div 2) =
\* q * c + r to the pair for b.
MulDivStep(h, a, b, c) ==
    IF b % 2 = 0
    THEN <<(2 * h[1]) + ((2 * h[2]) \div c), (2 * h[2]) % c>>
    ELSE <<(2 * h[1]) + ((2 * h[2]) \div c) + (a \div c)
               + ((((2 * h[2]) % c) + (a % c)) \div c),
           (((2 * h[2]) % c) + (a % c)) % c>>

\* floor(a * b / c) for a, b >= 0 and 0 < c < 2^30, computed without forming
\* a * b: <<quotient, remainder>> by doubling over the bits of b.
RECURSIVE MulDivRem(_, _, _)
MulDivRem(a, b, c) ==
    IF b = 0 THEN <<0, 0>>
    ELSE With(MulDivRem(a, b \div 2, c), LAMBDA h : MulDivStep(h, a, b, c))

MulDiv(a, b, c) == IF a = 0 \/ b = 0 THEN 0 ELSE MulDivRem(a, b, c)[1]

\* Number(reserve), in units.
ReserveUnits(reserve) == ToUnits(NumberUnits(reserve))

\* One hop of calculateLocalTradeOutput:
\* reserveOut * currentAmount * 0.997 / (reserveIn + currentAmount * 0.997),
\* each product rounded down to the unit.
HopOutput(reserveIn, reserveOut, currentAmount) ==
    LET x == MulDiv(currentAmount, 997, 1000)
    IN  IF reserveIn + x = 0 THEN 0 ELSE MulDiv(reserveOut, x, reserveIn + x)

\* The closures findPoolForPair and isToken0 of calculateTriangularArbitrage;
\* c holds its six arguments.
findPoolForPair(tokenA, tokenB, c) ==
    IF \/ tokenA = c.startToken /\ tokenB = c.midToken
       \/ tokenA = c.midToken /\ tokenB = c.startToken
    THEN c.pool1
    ELSE IF \/ tokenA = c.midToken /\ tokenB = c.destToken
            \/ tokenA = c.destToken /\ tokenB = c.midToken
    THEN c.pool2
    ELSE IF \/ tokenA = c.destToken /\ tokenB = c.startToken
            \/ tokenA = c.startToken /\ tokenB = c.destToken
    THEN c.pool3
    ELSE NullPool

isToken0(token, pool) == token = pool.token0.address

RECURSIVE calculateLocalTradeOutput(_, _, _)
calculateLocalTradeOutput(currentAmount, path, c) ==
    IF Len(path) < 2 THEN currentAmount
    ELSE LET pool == findPoolForPair(path[1], path[2], c) IN
         IF pool = NullPool THEN 0
         ELSE LET r0  == ReserveUnits(pool.token0.reserve)
                  r1  == ReserveUnits(pool.token1.reserve)
                  out == IF isToken0(path[1], pool)
                         THEN HopOutput(r0, r1, currentAmount)
                         ELSE HopOutput(r1, r0, currentAmount)
              IN  With(out, LAMBDA o : calculateLocalTradeOutput(o, Tail(path), c))

\* A fallback that assumes the trade returns a tenth more than was put in.
getActualTradeOutputHopeful(amount, answer) ==
    IF answer = 0 THEN amount * 11000 ELSE amount * answer * 10

\* getActualTradeOutput: the router's answer, or amount * 0.997 when the call
\* rejects.
getActualTradeOutput(amount, answer) ==
    IF answer = 0 THEN amount * 9970 ELSE amount * answer * 10

\* profit / amount, in units of 1/10000 (amount in whole tokens).
ProfitPercent(profit, amount) == profit \div amount

\* A pre-filter that lets every positive local profit through.
ProfitPercentPositive(profit, amount, threshold) == profit > 0

\* profit / amount > threshold, exactly.
ProfitPercentAbove(profit, amount, threshold) == profit > threshold * amount

\* tokenPools.get(token) || new Set()
PoolsOf(tp, token) == IF token \in DOMAIN tp THEN tp[token] ELSE {}

\* A finder that skips no pool for its liquidity.
LowLiquiditySkipsNone(pool) == FALSE

\* "Skip low liquidity pools".
LowLiquidity(pool) == pool.liquidityUSD.known /\ pool.liquidityUSD.usd < MIN_LIQUIDITY_USD

\* The other token of a pool, as the three loops of the finder take it.
OtherToken(pool, token) ==
    IF toLowerCase(pool.token0.address) = toLowerCase(token)
    THEN toLowerCase(pool.token1.address)
    ELSE toLowerCase(pool.token0.address)

\* estimatedGasUsed * GAS_PRICE * 1e-9 BNB, in units.
GasCostBNB == (300000 * GAS_PRICE) \div 100000

\* The first pool of the WBNB entry of the index, in registry order, that is
\* stored and holds the start token.
BnbPoolsOf(startToken, pm, tp) ==
    {a \in PoolsOf(tp, toLowerCase(PRIORITY_TOKENS_MUTABLE.WBNB)) :
        /\ a \in DOMAIN pm
        /\ \/ toLowerCase(pm[a].token0.address) = toLowerCase(startToken)
           \/ toLowerCase(pm[a].token1.address) = toLowerCase(startToken)}

\* "Convert gas cost to startToken".
GasCostInStartToken(startToken, pm, tp) ==
    IF toLowerCase(startToken) = toLowerCase(PRIORITY_TOKENS_MUTABLE.WBNB)
    THEN GasCostBNB
    ELSE LET pools == BnbPoolsOf(startToken, pm, tp)
             cost  == IF pools = {} THEN 0
                      ELSE LET bnbPool == pm[KeysSeq(pools)[1]] IN
                           IF toLowerCase(bnbPool.token0.address)
                                  = toLowerCase(PRIORITY_TOKENS_MUTABLE.WBNB)
                           THEN MulDiv(GasCostBNB, ReserveUnits(bnbPool.token1.reserve),
                                       ReserveUnits(bnbPool.token0.reserve))
                           ELSE MulDiv(GasCostBNB, ReserveUnits(bnbPool.token0.reserve),
                                       ReserveUnits(bnbPool.token1.reserve))
         IN  IF cost = 0 THEN GasCostBNB * 300 ELSE cost

\* The entry of testResults for a test amount, from the local estimate, the
\* router's answer and the gas cost in the start token.
TestResultOf(amount, localEstimate, answer, gasCost) ==
    LET flashLoanFee    == amount * 30
        amountToRepay   == ToUnits(amount) + flashLoanFee
        estimatedProfit == localEstimate - amountToRepay
        endAmount       == getActualTradeOutput(amount, answer)
        profit          == endAmount - amountToRepay
    IN  IF ProfitPercentAbove(estimatedProfit, amount, MIN_PROFIT_THRESHOLD)
        THEN [amount |-> amount, profit |-> profit,
              profitPercent |-> ProfitPercent(profit, amount),
              netProfit |-> profit - gasCost, endAmount |-> endAmount,
              localEstimate |-> localEstimate, gasCost |-> gasCost,
              skippedOnChain |-> FALSE]
        ELSE [amount |-> amount, profit |-> estimatedProfit,
              profitPercent |-> ProfitPercent(estimatedProfit, amount),
              netProfit |-> estimatedProfit, endAmount |-> localEstimate,
              localEstimate |-> localEstimate, gasCost |-> 0,
              skippedOnChain |-> TRUE]

\* The entries of testResults for the first k test amounts.
RECURSIVE TestResults(_, _, _, _)
TestResults(k, c, gasCost, q) ==
    IF k = 0 THEN <<>>
    ELSE Append(TestResults(k - 1, c, gasCost, q),
                With(calculateLocalTradeOutput(
                         ToUnits(TEST_AMOUNTS[k]),
                         <<c.startToken, c.midToken, c.destToken, c.startToken>>, c),
                     LAMBDA localEstimate :
                         TestResultOf(TEST_AMOUNTS[k], localEstimate, q[k], gasCost)))

NoBest ==
    [hasAnyProfitableAmount |-> FALSE, bestAmount |-> 0, bestProfitPercent |-> 0,
     bestProfit |-> 0, bestNetProfit |-> 0, bestGasCost |-> 0]

\* A best-amount update that does not look at the net profit.
UpdatesBestIgnoringNet(r, best) ==
    /\ ~r.skippedOnChain
    /\ r.profitPercent > 0
    /\ (best.hasAnyProfitableAmount => r.profitPercent > best.bestProfitPercent)

\* profitPercent > 0 && profitPercent > bestProfitPercent && netProfit > 0, in
\* the branch of the on-chain simulation (bestProfitPercent starts at -Infinity).
UpdatesBest(r, best) ==
    /\ ~r.skippedOnChain
    /\ r.profitPercent > 0
    /\ (best.hasAnyProfitableAmount => r.profitPercent > best.bestProfitPercent)
    /\ r.netProfit > 0

\* The best amount after one more test result.
NextBest(r, best) ==
    IF UpdatesBest(r, best)
    THEN [hasAnyProfitableAmount |-> TRUE, bestAmount |-> r.amount,
          bestProfitPercent |-> r.profitPercent, bestProfit |-> r.profit,
          bestNetProfit |-> r.netProfit, bestGasCost |-> r.gasCost]
    ELSE best

\* The best amount after the first k test results.
RECURSIVE BestAfter(_, _)
BestAfter(results, k) ==
    IF k = 0 THEN NoBest
    ELSE With(BestAfter(results, k - 1), LAMBDA best : NextBest(results[k], best))

\* A step of the path of an opportunity.
PathStep(pool, tokenIn, tokenOut, tc) ==
    LET in0 == pool.token0.address = tokenIn IN
    [poolAddress |-> pool.address, tokenIn |-> tokenIn, tokenOut |-> tokenOut,
     tokenInSymbol |-> IF in0 THEN pool.token0.symbol ELSE pool.token1.symbol,
     tokenOutSymbol |-> IF in0 THEN pool.token1.symbol ELSE pool.token0.symbol,
     tokenInDecimals |-> tc[tokenIn].decimals,
     tokenOutDecimals |-> tc[tokenOut].decimals]

\* The opportunity calculateTriangularArbitrage returns for a best amount.
Opportunity(c, tc, results, best) ==
    [startToken |-> c.startToken,
     path |-> <<PathStep(c.pool1, c.startToken, c.midToken, tc),
                PathStep(c.pool2, c.midToken, c.destToken, tc),
                PathStep(c.pool3, c.destToken, c.startToken, tc)>>,
     expectedProfit |-> best.bestProfit,
     profitPercent |-> best.bestProfitPercent,
     estimatedGasCost |-> best.bestGasCost,
     netProfit |-> best.bestNetProfit,
     testResults |-> results,
     bestAmount |-> best.bestAmount]

\* calculateTriangularArbitrage: its testResults when the loop is over, and
\* what it returns, <<>> for null, else the one opportunity.  A token missing
\* from the token cache throws in every test and gives null.
calculateTriangularArbitrage(c, pm, tp, tc, q) ==
    IF ~({c.startToken, c.midToken, c.destToken} \subseteq DOMAIN tc)
    THEN [testResults |-> <<>>, returned |-> <<>>]
    ELSE With(TestResults(Len(TEST_AMOUNTS), c,
                          GasCostInStartToken(c.startToken, pm, tp), q),
              LAMBDA results :
                  With(BestAfter(results, Len(TEST_AMOUNTS)),
                       LAMBDA best :
                           [testResults |-> results,
                            returned |-> IF best.hasAnyProfitableAmount
                                         THEN <<Opportunity(c, tc, results, best)>>
                                         ELSE <<>>]))

\* A finder that takes every third pool as closing the cycle.
ClosesAlways(otherToken, startToken) == TRUE

\* otherToken === startToken: the third pool connects back to the start token.
Closes(otherToken, startToken) == otherToken = startToken

\* The pools the loop over startTokenPools does not skip.
StartPools(startToken, pm, tp) ==
    {a \in PoolsOf(tp, startToken) : a \in DOMAIN pm /\ ~LowLiquidity(pm[a])}

\* The pools the loop over midTokenPools does not skip, for a start pool.
MidPools(startToken, sp, pm, tp) ==
    LET midToken == OtherToken(pm[sp], startToken) IN
    {a \in PoolsOf(tp, midToken) :
        /\ a # sp
        /\ a \in DOMAIN pm
        /\ ~LowLiquidity(pm[a])
        /\ OtherToken(pm[a], midToken) # startToken}

\* The pools of the loop over destPools that reach calculateTriangularArbitrage.
DestPools(startToken, sp, mp, pm, tp) ==
    LET midToken  == OtherToken(pm[sp], startToken)
        destToken == OtherToken(pm[mp], midToken)
    IN  {a \in PoolsOf(tp, destToken) :
            /\ ~(a = sp \/ a = mp)
            /\ a \in DOMAIN pm
            /\ ~LowLiquidity(pm[a])
            /\ Closes(OtherToken(pm[a], destToken), startToken)}

\* The six arguments of calculateTriangularArbitrage for three pools.
Cycle(startToken, sp, mp, dp, pm) ==
    LET midToken  == OtherToken(pm[sp], startToken)
        destToken == OtherToken(pm[mp], midToken)
    IN  [startToken |-> startToken, midToken |-> midToken, destToken |-> destToken,
         pool1 |-> pm[sp], pool2 |-> pm[mp], pool3 |-> pm[dp]]

\* Every cycle the four nested loops pass to calculateTriangularArbitrage.
CycleSet(pm, tp) ==
    UNION {UNION {{Cycle(s, sp, mp, dp, pm) : dp \in DestPools(s, sp, mp, pm, tp)} :
                     mp \in MidPools(s, sp, pm, tp)} :
              <<s, sp>> \in {<<t, a>> \in PriorityTokenAddresses \X DOMAIN pm :
                                a \in StartPools(t, pm, tp)}}

\* The place of a cycle in the order of the loops: start tokens in the order
\* of the configuration, pools in registry order.
CycleRank(c) ==
    LET t == CHOOSE i \in DOMAIN PriorityTokenOrder : PriorityTokenOrder[i] = c.startToken.id
    IN  ((t * 8 + PairOf(c.pool1.address.id)) * 8 + PairOf(c.pool2.address.id)) * 8
            + PairOf(c.pool3.address.id)

RECURSIVE CycleSeq(_)
CycleSeq(S) ==
    IF S = {} THEN <<>>
    ELSE LET c == CHOOSE x \in S : \A y \in S : CycleRank(x) <= CycleRank(y)
         IN  <<c>> \o CycleSeq(S \ {c})

Candidates(pm, tp) == CycleSeq(CycleSet(pm, tp))

\* config.INPUT_ARGS.percent ?? config.MIN_PROFIT_THRESHOLD
Threshold(args) == IF args.given THEN args.percent ELSE MIN_PROFIT_THRESHOLD

\* A finder that lets a profit percent equal to the threshold pass.
PassesThresholdLoose(opportunity, args) == opportunity.profitPercent >= Threshold(args)

\* opportunity.profitPercent > (INPUT_ARGS.percent ?? MIN_PROFIT_THRESHOLD)
PassesThreshold(opportunity, args) == opportunity.profitPercent > Threshold(args)

\* step.tokenIn === PRIORITY_TOKENS_MUTABLE.WBNB || step.tokenOut === ... for
\* some step: string equality, the letter case included.
isBaseTokenInPath(path) ==
    \E i \in DOMAIN path :
        \/ path[i].tokenIn = PRIORITY_TOKENS_MUTABLE.WBNB
        \/ path[i].tokenOut = PRIORITY_TOKENS_MUTABLE.WBNB

\* validateOpportunityAndSend reaches sendArbitrage.
Validated(opportunity) ==
    /\ ~(\/ opportunity.startToken = NoAddr
         \/ opportunity.bestAmount = 0
         \/ opportunity.expectedProfit = 0
         \/ opportunity.profitPercent = 0
         \/ opportunity.netProfit = 0
         \/ opportunity.bestAmount < 100)
    /\ ~isBaseTokenInPath(opportunity.path)

\* sendArbitrage does not throw before queue.add.
Sendable(opportunityData) ==
    /\ ~(\/ opportunityData.startToken = NoAddr
         \/ opportunityData.bestAmount = 0
         \/ opportunityData.bestAmount <= TX_MIN_BEST_AMOUNT)
    /\ ~(Len(opportunityData.path) < 2)

\* A dispatch without validation.
ReachesQueueAlways(opportunity) == TRUE

\* validateOpportunityAndSend calls sendArbitrage, which comes to queue.add.
ReachesQueue(opportunity) == Validated(opportunity) /\ Sendable(opportunity)

\* pool ? Number(pool.liquidityUSD) : 0, per step of the path; known is FALSE
\* for NaN.
PoolLiquidities(path, pm) ==
    [i \in DOMAIN path |->
        IF path[i].poolAddress \in DOMAIN pm
        THEN pm[path[i].poolAddress].liquidityUSD
        ELSE [known |-> TRUE, usd |-> 0]]

\* A slippage with two values only: 990 above 5% of the pool, else 997.
SlippageTwoValues(amount, liquidity) ==
    IF ~liquidity.known \/ liquidity.usd <= 0 THEN 997
    ELSE IF amount * 100 > 5 * liquidity.usd THEN 990
    ELSE 997

\* The slippage of one hop in calculateAdaptiveSlippageWithLiquidity.
Slippage(amount, liquidity) ==
    IF ~liquidity.known \/ liquidity.usd <= 0 THEN 997
    ELSE IF amount * 100 > 5 * liquidity.usd THEN 990
    ELSE IF amount * 100 > 2 * liquidity.usd THEN 992
    ELSE IF amount * 100 > liquidity.usd THEN 995
    ELSE 997

calculateAdaptiveSlippageWithLiquidity(amount, poolLiquidities) ==
    [i \in DOMAIN poolLiquidities |-> Slippage(amount, poolLiquidities[i])]

\* path[0].tokenInDecimals || 18
BorrowTokenDecimals(path) ==
    IF path[1].tokenInDecimals = 0 THEN 18 ELSE path[1].tokenInDecimals

\* The job sendArbitrage adds; parseUnits(bestAmount.toString(), decimals) is
\* bestAmount * 10^decimals base units.
PrimaryJob(opportunityData, pm) ==
    [name |-> JOB_NAME,
     payload |-> [token0 |-> opportunityData.startToken,
                  borrowAmount |-> Raw(opportunityData.bestAmount,
                                       BorrowTokenDecimals(opportunityData.path)),
                  token1 |-> opportunityData.path[1].tokenOut,
                  token2 |-> opportunityData.path[2].tokenOut,
                  deadLineMin |-> 2,
                  slippages |-> calculateAdaptiveSlippageWithLiquidity(
                                    opportunityData.bestAmount,
                                    PoolLiquidities(opportunityData.path, pm))],
     priority |-> 0 - opportunityData.profitPercent,
     primary |-> TRUE,
     opportunity |-> opportunityData]

\* testResults.sort((a, b) => a.amount - b.amount)
RECURSIVE SortByAmount(_)
SortByAmount(rs) ==
    IF rs = <<>> THEN <<>>
    ELSE LET rest == SortByAmount(Tail(rs))
             n    == Cardinality({i \in DOMAIN rest : rest[i].amount < Head(rs).amount})
         IN  SubSeq(rest, 1, n) \o <<Head(rs)>> \o SubSeq(rest, n + 1, Len(rest))

\* The test that looks at the first two results only.
isContinueFirstPair(testResults) ==
    ~(testResults[2].profitPercent < testResults[1].profitPercent)

\* The "profit is increasing with the amount" test of sendAnotherArbitrage.
isContinue(testResults) ==
    \A i \in 2..Len(testResults) :
        ~(testResults[i].profitPercent < testResults[i - 1].profitPercent)

\* sendAnotherArbitrage goes on to the larger job.
ScalesUp(testResults) ==
    /\ ~(Len(testResults) < 3)
    /\ isContinue(SortByAmount(testResults))

\* poolLiquidities.filter((liq) => liq > 0), as a set.
validLiquidities(poolLiquidities) ==
    {poolLiquidities[i].usd : i \in {j \in DOMAIN poolLiquidities :
        poolLiquidities[j].known /\ poolLiquidities[j].usd > 0}}

\* Math.min(...validLiquidities)
MinOf(valid) == CHOOSE x \in valid : \A y \in valid : x <= y

\* safePercentage of calculateSafeTradeAmount, in 1/1000.
safePercentage(minLiquidity) ==
    IF minLiquidity > 1000000 THEN 3
    ELSE IF minLiquidity > 100000 THEN 8 ELSE 15

\* calculateSafeTradeAmount, in whole tokens.
calculateSafeTradeAmount(poolLiquidities) ==
    LET valid == validLiquidities(poolLiquidities)
    IN  IF valid = {} THEN 100000
        ELSE LET minLiquidity == MinOf(valid)
                 perMille     == safePercentage(minLiquidity)
                 maxAmount    == Min((minLiquidity * perMille) \div 1000, 100000)
             IN  (maxAmount \div 100) * 100

\* The second, larger job of sendAnotherArbitrage.
ScaledJob(job, pm) ==
    [job EXCEPT !.payload.borrowAmount =
                    Raw(calculateSafeTradeAmount(PoolLiquidities(job.opportunity.path, pm)),
                        BorrowTokenDecimals(job.opportunity.path)),
                !.payload.slippages = <<990, 990, 990>>,
                !.priority = 0 - 1000000,
                !.primary = FALSE]

\* opportunities.sort((a, b) => b.netProfit - a.netProfit)
RECURSIVE SortByNetProfit(_)
SortByNetProfit(os) ==
    IF os = <<>> THEN <<>>
    ELSE LET rest == SortByNetProfit(Tail(os))
             n    == Cardinality({i \in DOMAIN rest : rest[i].netProfit > Head(os).netProfit})
         IN  SubSeq(rest, 1, n) \o <<Head(os)>> \o SubSeq(rest, n + 1, Len(rest))

\* A store the scanner can hold when a pass calls the finder: records of some
\* pairs loaded at one instant, and an index that may still list pairs a
\* reset removed from the store.
FinderStoreInit ==
    \E S \in FinderStores, t \in {0, 86400000, 172800000}, stale \in BOOLEAN :
        LET stored  == {toLowerCase(Addr(p)) : p \in S}
            indexed == IF stale THEN {toLowerCase(Addr(p)) : p \in FinderPairs} ELSE stored
        IN  /\ now = t + 20000
            /\ poolsMap = [a \in stored |-> PoolRecord(a, RegistryIndex(a.id), t)]
            /\ tokenPools = IndexAll(EmptyMap, indexed)
            /\ tokenCache = CacheAll(EmptyMap, indexed)
            /\ currentPoolIndices = {RegistryIndex(p) : p \in S}
            /\ lastProfitFound = 0
            /\ totalPools = Len(ChainPairs)
            /\ RANDOM_END = Len(ChainPairs) - 1
            /\ loads = [i \in Slots |-> IdleLoad]
            /\ ret = NoRet
            /\ lastOp = Op("step")

\* The percent argument and the market the router quotes from.
FinderInit ==
    /\ INPUT_ARGS \in {[given |-> FALSE, percent |-> 0]}
                          \cup {[given |-> TRUE, percent |-> x] : x \in InputPercents}
    /\ quotes \in Markets
    /\ finder = [pc |-> "idle", k |-> 0]
    /\ reported = <<>>
    /\ calc = NoCycle
    /\ arbitrageQueue = <<>>
    /\ sending = <<>>

\* A finder that restarts the idle timer only for a cycle it has dispatched.
FoundProfitTimerOnDispatch(passes, sends, t, last) == IF sends THEN t ELSE last

\* config.state.lastProfitFound after a cycle has been evaluated at instant t:
\* Date.now() inside the threshold test, next to validateOpportunityAndSend.
FoundProfitTimer(passes, sends, t, last) == IF passes THEN t ELSE last

\* findArbitrageOpportunities is called.
findArbitrageOpportunities ==
    /\ finder.pc = "idle"
    /\ finder' = [pc |-> "scan", k |-> 1]
    /\ reported' = <<>>
    /\ lastOp' = Op("findArbitrageOpportunities")
    /\ ret' = NoRet
    /\ UNCHANGED <<now, poolsMap, tokenPools, tokenCache, currentPoolIndices,
                   lastProfitFound, totalPools, RANDOM_END, loads>>
    /\ UNCHANGED <<INPUT_ARGS, quotes, calc, arbitrageQueue, sending>>
    /\ UNCHANGED <<histVars, flashSwap, schedVars>>

\* The loops reach the next triangular path: calculateTriangularArbitrage, the
\* threshold test, validateOpportunityAndSend and sendArbitrage up to queue.add.
EvaluateCycle ==
    /\ finder.pc = "scan"
    /\ \E cands \in {Candidates(poolsMap, tokenPools)} :
        /\ finder.k <= Len(cands)
        /\ \E call \in {calculateTriangularArbitrage(cands[finder.k], poolsMap,
                                                     tokenPools, tokenCache, quotes)} :
            LET result == call.returned
                passes == result # <<>> /\ PassesThreshold(result[1], INPUT_ARGS)
                sends  == passes /\ ReachesQueue(result[1])
            IN  /\ calc' = [c \in DOMAIN NoCycle |->
                               IF c \in DOMAIN call THEN call[c] ELSE cands[finder.k][c]]
                /\ reported' = IF passes THEN Append(reported, result[1]) ELSE reported
                /\ lastProfitFound' = FoundProfitTimer(passes, sends, now, lastProfitFound)
                /\ arbitrageQueue' =
                       IF sends THEN Append(arbitrageQueue, PrimaryJob(result[1], poolsMap))
                       ELSE arbitrageQueue
                /\ sending' = IF sends THEN Append(sending, PrimaryJob(result[1], poolsMap))
                              ELSE sending
    /\ finder' = [finder EXCEPT !.k = @ + 1]
    /\ lastOp' = Op("calculateTriangularArbitrage")
    /\ ret' = NoRet
    /\ UNCHANGED <<now, poolsMap, tokenPools, tokenCache, currentPoolIndices,
                   totalPools, RANDOM_END, loads>>
    /\ UNCHANGED <<INPUT_ARGS, quotes>>
    /\ UNCHANGED <<histVars, flashSwap, schedVars>>

\* The loops are exhausted: the opportunities are sorted and returned.
FinderReturn ==
    /\ finder.pc = "scan"
    /\ finder.k > Len(Candidates(poolsMap, tokenPools))
    /\ finder' = [finder EXCEPT !.pc = "done"]
    /\ reported' = SortByNetProfit(reported)
    /\ lastOp' = Op("findArbitrageOpportunities")
    /\ ret' = NoRet
    /\ UNCHANGED <<now, poolsMap, tokenPools, tokenCache, currentPoolIndices,
                   lastProfitFound, totalPools, RANDOM_END, loads>>
    /\ UNCHANGED <<INPUT_ARGS, quotes, calc, arbitrageQueue, sending>>
    /\ UNCHANGED <<histVars, flashSwap, schedVars>>

\* queue.add of the oldest suspended sendArbitrage resolves:
\* sendAnotherArbitrage runs.
sendAnotherArbitrage ==
    /\ sending # <<>>
    /\ sending' = Tail(sending)
    /\ arbitrageQueue' = IF ScalesUp(Head(sending).opportunity.testResults)
                         THEN Append(arbitrageQueue, ScaledJob(Head(sending), poolsMap))
                         ELSE arbitrageQueue
    /\ lastOp' = Op("sendAnotherArbitrage")
    /\ ret' = NoRet
    /\ UNCHANGED <<now, poolsMap, tokenPools, tokenCache, currentPoolIndices,
                   lastProfitFound, totalPools, RANDOM_END, loads>>
    /\ UNCHANGED <<INPUT_ARGS, quotes, finder, reported, calc>>
    /\ UNCHANGED <<histVars, flashSwap, schedVars>>

FinderNext ==
    \/ findArbitrageOpportunities
    \/ EvaluateCycle
    \/ FinderReturn
    \/ sendAnotherArbitrage

InitFinder == FinderStoreInit /\ HistIdle /\ SchedIdle /\ FinderInit /\ FlashSwapInit

SpecFinder == InitFinder /\ [][FinderNext]_vars

\* The opportunity's figures are those of the on-chain test of its best amount.
AtBestAmount(o) ==
    \E i \in DOMAIN o.testResults :
        /\ o.testResults[i].amount = o.bestAmount
        /\ ~o.testResults[i].skippedOnChain
        /\ o.testResults[i].profitPercent = o.profitPercent
        /\ o.testResults[i].netProfit = o.netProfit

\* C1: every job in the queue, the primary one of each dispatch included, is
\* for an opportunity whose profit percent at its best amount is strictly
\* above the configured minimum threshold (the percent argument when given,
\* MIN_PROFIT_THRESHOLD otherwise) and whose net profit at that amount is
\* strictly positive.
C1_DispatchedAboveThreshold ==
    \A i \in DOMAIN arbitrageQueue :
        LET o == arbitrageQueue[i].opportunity IN
        /\ o.profitPercent > Threshold(INPUT_ARGS)
        /\ o.netProfit > 0
        /\ AtBestAmount(o)

\* A run of the finder is over, it has queued a primary job, and some cycle it
\* evaluated was not reported.
C1_Witness ==
    /\ finder.pc = "done"
    /\ \E i \in DOMAIN arbitrageQueue : arbitrageQueue[i].primary
    /\ Len(reported) < finder.k - 1

\* Three pool addresses are pairwise distinct.
Distinct3(a, b, c) == a # b /\ a # c /\ b # c

\* The cycle passed to calculateTriangularArbitrage: distinct pools, and the
\* third pool's other token is the start token.
CycleClosed(c) ==
    /\ Distinct3(c.pool1.address, c.pool2.address, c.pool3.address)
    /\ OtherToken(c.pool3, c.destToken) = c.startToken

\* A reported opportunity: distinct pools, the third hop gives the start token
\* back, and the third pool's other token is the start token.
ReportedClosed(o) ==
    /\ Distinct3(o.path[1].poolAddress, o.path[2].poolAddress, o.path[3].poolAddress)
    /\ o.path[1].tokenIn = o.startToken
    /\ o.path[3].tokenOut = o.startToken
    /\ o.path[3].poolAddress \in DOMAIN poolsMap
    /\ OtherToken(poolsMap[o.path[3].poolAddress], o.path[3].tokenIn) = o.startToken

\* C2: every cycle the finder evaluates, reports or dispatches has three
\* pairwise distinct pools and a third hop whose output token is the start
\* token; a candidate whose third pool's other token is not the start token
\* is neither evaluated nor reported.
C2_CyclesAreClosedAndDistinct ==
    /\ calc # NoCycle => CycleClosed(calc)
    /\ \A i \in DOMAIN reported : ReportedClosed(reported[i])
    /\ \A i \in DOMAIN arbitrageQueue : ReportedClosed(arbitrageQueue[i].opportunity)

\* A cycle has been evaluated and reported although the loops met, for its
\* start and middle pools, a stored third pool that does not lead back to the
\* start token, and the index lists a pool the store does not hold.
C2_Witness ==
    /\ calc # NoCycle
    /\ reported # <<>>
    /\ \E a \in PoolsOf(tokenPools, calc.destToken) \cap DOMAIN poolsMap :
        /\ a \notin {calc.pool1.address, calc.pool2.address}
        /\ OtherToken(poolsMap[a], calc.destToken) # calc.startToken
    /\ \E t \in DOMAIN tokenPools : \E a \in tokenPools[t] : a \notin DOMAIN poolsMap

\* The path of an opportunity has the chain base asset as the tokenIn or the
\* tokenOut of a step, the letter case left aside.
TouchesBaseAsset(o) ==
    \E i \in DOMAIN o.path :
        \/ toLowerCase(o.path[i].tokenIn) = toLowerCase(PRIORITY_TOKENS_MUTABLE.WBNB)
        \/ toLowerCase(o.path[i].tokenOut) = toLowerCase(PRIORITY_TOKENS_MUTABLE.WBNB)

\* C5: no job is in the queue for an opportunity whose path has WBNB as the
\* tokenIn or tokenOut of one of its three steps, in whatever letter case the
\* address is configured and stored.
C5_NoJobThroughBaseAsset ==
    \A i \in DOMAIN arbitrageQueue : ~TouchesBaseAsset(arbitrageQueue[i].opportunity)

\* validateOpportunityAndSend has let an opportunity through WBNB pass: a
\* primary job for it is in the queue.
C5_Witness ==
    \E i \in DOMAIN arbitrageQueue :
        /\ arbitrageQueue[i].primary
        /\ TouchesBaseAsset(arbitrageQueue[i].opportunity)
        /\ ~isBaseTokenInPath(arbitrageQueue[i].opportunity.path)

\* Results i and j are for two consecutive sizes, the smaller first.
ConsecutiveSizes(rs, i, j) ==
    /\ rs[i].amount < rs[j].amount
    /\ ~\E k \in DOMAIN rs : rs[i].amount < rs[k].amount /\ rs[k].amount < rs[j].amount

\* The profit percent grows from each size to the next larger one.
ProfitIncreasing(rs) ==
    \A i, j \in DOMAIN rs :
        ConsecutiveSizes(rs, i, j) => rs[i].profitPercent < rs[j].profitPercent

\* The profit percent falls from some size to the next larger one.
ProfitDecreasesSomewhere(rs) ==
    \E i, j \in DOMAIN rs :
        ConsecutiveSizes(rs, i, j) /\ rs[j].profitPercent < rs[i].profitPercent

\* The step of sendAnotherArbitrage for the oldest suspended sendArbitrage.
ScalingStep ==
    /\ sending # <<>>
    /\ sending' = Tail(sending)
    /\ lastOp'.op = "sendAnotherArbitrage"

\* The step adds one job, not a primary one, for the opportunity of the
\* primary job that is already in the queue.
AddsOneScaledJob ==
    /\ Len(arbitrageQueue') = Len(arbitrageQueue) + 1
    /\ SubSeq(arbitrageQueue', 1, Len(arbitrageQueue)) = arbitrageQueue
    /\ ~arbitrageQueue'[Len(arbitrageQueue')].primary
    /\ arbitrageQueue'[Len(arbitrageQueue')].opportunity = Head(sending).opportunity
    /\ \E i \in DOMAIN arbitrageQueue : arbitrageQueue[i] = Head(sending)

\* C12: when sendArbitrage has queued the primary job of an opportunity with
\* three or more test results whose profit percent grows from each size to the
\* next larger one, sendAnotherArbitrage adds exactly one more job, a scaled
\* one, behind it; when the profit percent falls between two consecutive
\* sizes it adds none.
C12_ScaledJobOnIncreasingProfit ==
    [][ScalingStep =>
          LET rs == Head(sending).opportunity.testResults IN
          /\ ~(Len(rs) < 3) /\ ProfitIncreasing(rs) => AddsOneScaledJob
          /\ ProfitDecreasesSomewhere(rs) => arbitrageQueue' = arbitrageQueue]_vars

\* sendAnotherArbitrage has just run, and a scaled job is in the queue behind
\* the primary job of an opportunity whose four sizes have growing profit
\* percents.
C12_Witness ==
    /\ lastOp.op = "sendAnotherArbitrage"
    /\ \E i, j \in DOMAIN arbitrageQueue :
        /\ i < j
        /\ arbitrageQueue[i].primary
        /\ ~arbitrageQueue[j].primary
        /\ arbitrageQueue[j].opportunity = arbitrageQueue[i].opportunity
        /\ Len(arbitrageQueue[i].opportunity.testResults) = 4
        /\ ProfitIncreasing(arbitrageQueue[i].opportunity.testResults)

\* Every tested size has a result verified by the router.
AllVerified(rs) ==
    \A i \in DOMAIN rs : ~rs[i].skippedOnChain

\* Two consecutive sizes have the same profit percent.
ProfitEqualSomewhere(rs) ==
    \E i, j \in DOMAIN rs :
        ConsecutiveSizes(rs, i, j) /\ rs[j].profitPercent = rs[i].profitPercent

\* C21: sendAnotherArbitrage adds a job only for an opportunity whose every
\* tested size has a verified result and whose profit percent grows strictly
\* from each size to the next larger one; with two equal consecutive profit
\* percents or with a local-only result it adds none.
C21_ScaledJobOnlyOnVerifiedStrictIncrease ==
    [][ScalingStep /\ arbitrageQueue' # arbitrageQueue =>
          LET rs == Head(sending).opportunity.testResults IN
          /\ AllVerified(rs)
          /\ ProfitIncreasing(rs)]_vars

\* C21, what holds: sendAnotherArbitrage adds a job only for an opportunity
\* with three or more test results whose profit percent does not fall from any
\* size to the next larger one, verified or not, and then adds it.
C21_ScaledJobOnlyWithoutDecrease ==
    [][ScalingStep =>
          LET rs == Head(sending).opportunity.testResults IN
          /\ arbitrageQueue' # arbitrageQueue
                => ~(Len(rs) < 3) /\ ~ProfitDecreasesSomewhere(rs)
          /\ ~(Len(rs) < 3) /\ ~ProfitDecreasesSomewhere(rs)
                /\ (~AllVerified(rs) \/ ProfitEqualSomewhere(rs))
                => AddsOneScaledJob]_vars

\* sendAnotherArbitrage has just added a scaled job for an opportunity with a
\* local-only result among its sizes.
C21_Witness ==
    /\ lastOp.op = "sendAnotherArbitrage"
    /\ arbitrageQueue # <<>>
    /\ LET job == arbitrageQueue[Len(arbitrageQueue)] IN
        /\ ~job.primary
        /\ ~AllVerified(job.opportunity.testResults)

\* A step in which calculateTriangularArbitrage is called and returns.
EvaluationStep == lastOp'.op = "calculateTriangularArbitrage"

\* A test result verified by the router, with a profit percent and a net
\* profit above zero.
Qualifies(r) == ~r.skippedOnChain /\ r.profitPercent > 0 /\ r.netProfit > 0

\* The opportunity's best amount is a qualifying size with the highest profit
\* percent among the qualifying ones, and its figures are those of that size.
BestOfQualifying(o, rs) ==
    \E i \in DOMAIN rs :
        /\ Qualifies(rs[i])
        /\ \A j \in DOMAIN rs : Qualifies(rs[j]) => rs[j].profitPercent <= rs[i].profitPercent
        /\ o.bestAmount = rs[i].amount
        /\ o.expectedProfit = rs[i].profit
        /\ o.profitPercent = rs[i].profitPercent
        /\ o.netProfit = rs[i].netProfit
        /\ o.estimatedGasCost = rs[i].gasCost

\* C13: for every evaluated cycle the best amount is the tested size with the
\* highest verified profit percent among the sizes whose verified profit
\* percent and net profit are above zero, and expectedProfit, profitPercent,
\* netProfit and estimatedGasCost are those of that size; when no size
\* qualifies calculateTriangularArbitrage returns null and nothing is
\* reported.
C13_BestAmountIsBestQualifying ==
    [][EvaluationStep =>
          IF \E i \in DOMAIN calc'.testResults : Qualifies(calc'.testResults[i])
          THEN /\ calc'.returned # <<>>
               /\ BestOfQualifying(calc'.returned[1], calc'.testResults)
          ELSE /\ calc'.returned = <<>>
               /\ reported' = reported]_vars

\* A cycle has just been evaluated: two sizes qualify with different profit
\* percents, the opportunity is returned, and a verified size with a higher
\* profit percent than the best amount's was passed over for its net profit.
C13_Witness ==
    /\ lastOp.op = "calculateTriangularArbitrage"
    /\ calc.returned # <<>>
    /\ \E i, j \in DOMAIN calc.testResults :
        /\ Qualifies(calc.testResults[i])
        /\ Qualifies(calc.testResults[j])
        /\ calc.testResults[i].profitPercent < calc.testResults[j].profitPercent
    /\ \E i \in DOMAIN calc.testResults :
        /\ ~calc.testResults[i].skippedOnChain
        /\ calc.testResults[i].profitPercent > calc.returned[1].profitPercent
        /\ ~(calc.testResults[i].netProfit > 0)

\* The profit of the local estimate r carries, in units: the estimate less
\* the amount and the 0.3% flash loan fee.
LocalProfit(r) == r.localEstimate - (ToUnits(r.amount) + r.amount * 30)

\* The local estimate's profit percent is above MIN_PROFIT_THRESHOLD.
ClearsPreFilter(r) == LocalProfit(r) > MIN_PROFIT_THRESHOLD * r.amount

\* The result carries what the router answered for its size.
CarriesRouterQuote(r, answer) ==
    /\ ~r.skippedOnChain
    /\ r.endAmount = getActualTradeOutput(r.amount, answer)
    /\ r.profit = r.endAmount - (ToUnits(r.amount) + r.amount * 30)

\* The result is marked as skipped and carries the local estimate's numbers.
CarriesLocalOnly(r) ==
    /\ r.skippedOnChain
    /\ r.endAmount = r.localEstimate
    /\ r.profit = LocalProfit(r)
    /\ r.profitPercent = LocalProfit(r) \div r.amount
    /\ r.netProfit = LocalProfit(r)

LocalClears(r, t) == LocalProfit(r) > t * r.amount

\* Every opportunity reported so far is above the supplied percent.
ReportedAboveSupplied ==
    \A i \in DOMAIN reported : reported[i].profitPercent > INPUT_ARGS.percent

\* C34: with INPUT_ARGS.percent supplied, the supplied value is the threshold
\* of both comparisons of a scan: a size gets a verified quote exactly when its
\* local estimate's profit percent is above it, and an opportunity is accepted
\* only with a profitPercent above it.
C34_SuppliedThresholdAtEveryComparison ==
    (INPUT_ARGS.given /\ calc # NoCycle) =>
        /\ \A k \in DOMAIN calc.testResults :
              ~calc.testResults[k].skippedOnChain
                  <=> LocalClears(calc.testResults[k], INPUT_ARGS.percent)
        /\ ReportedAboveSupplied

\* C34, as the code has it: with INPUT_ARGS.percent supplied, a size gets a
\* verified quote exactly when its local estimate's profit percent is above
\* the constant MIN_PROFIT_THRESHOLD; the supplied value is the threshold of
\* the acceptance of the opportunity only.
C34_SuppliedThresholdAtAcceptanceOnly ==
    (INPUT_ARGS.given /\ calc # NoCycle) =>
        /\ \A k \in DOMAIN calc.testResults :
              ~calc.testResults[k].skippedOnChain
                  <=> LocalClears(calc.testResults[k], MIN_PROFIT_THRESHOLD)
        /\ ReportedAboveSupplied

\* With the percent supplied below MIN_PROFIT_THRESHOLD, the finder has
\* accepted an opportunity whose profitPercent lies between the two, from a
\* cycle of which a size that clears the supplied percent locally got no quote.
C34_Witness ==
    /\ INPUT_ARGS.given
    /\ INPUT_ARGS.percent < MIN_PROFIT_THRESHOLD
    /\ lastOp.op = "calculateTriangularArbitrage"
    /\ \E k \in DOMAIN calc.testResults :
        /\ calc.testResults[k].skippedOnChain
        /\ LocalClears(calc.testResults[k], INPUT_ARGS.percent)
    /\ \E i \in DOMAIN reported :
        /\ reported[i] = calc.returned[1]
        /\ reported[i].profitPercent <= MIN_PROFIT_THRESHOLD

\* The test amounts whose router quote fails in the market of the run.
FailedQuoteSizes == {TEST_AMOUNTS[k] : k \in {j \in DOMAIN TEST_AMOUNTS : quotes[j] = 0}}

\* C35: a test size whose router quote failed has a negative profit and never
\* becomes bestAmount, so that no opportunity reported and no job queued has
\* the size of a failed quote as its bestAmount.
C35_FailedQuoteNeverBest ==
    /\ \A k \in DOMAIN calc.testResults :
          (quotes[k] = 0 /\ ~calc.testResults[k].skippedOnChain) =>
              /\ calc.testResults[k].endAmount = calc.testResults[k].amount * 9970
              /\ calc.testResults[k].profit < 0
              /\ calc.testResults[k].profitPercent < 0
    /\ calc.returned # <<>> => calc.returned[1].bestAmount \notin FailedQuoteSizes
    /\ \A i \in DOMAIN reported : reported[i].bestAmount \notin FailedQuoteSizes
    /\ \A i \in DOMAIN arbitrageQueue :
          arbitrageQueue[i].opportunity.bestAmount \notin FailedQuoteSizes

\* An opportunity has been returned and queued from a cycle of which one
\* size was sent to the router and the quote failed.
C35_Witness ==
    /\ lastOp.op = "calculateTriangularArbitrage"
    /\ calc.returned # <<>>
    /\ \E k \in DOMAIN calc.testResults :
          quotes[k] = 0 /\ ~calc.testResults[k].skippedOnChain
    /\ \E i \in DOMAIN arbitrageQueue : arbitrageQueue[i].opportunity = calc.returned[1]

\* The liquidity estimate of a pool record is the unknown sentinel or at least
\* MIN_LIQUIDITY_USD.
AboveFloorOrUnknown(pool) ==
    ~pool.liquidityUSD.known \/ pool.liquidityUSD.usd >= MIN_LIQUIDITY_USD

\* The pools of the store with a known estimate below the floor.
BelowFloor ==
    {a \in DOMAIN poolsMap :
        poolsMap[a].liquidityUSD.known /\ poolsMap[a].liquidityUSD.usd < MIN_LIQUIDITY_USD}

\* C26: each of the three pools of a cycle that findArbitrageOpportunities
\* passes to calculateTriangularArbitrage has a liquidity estimate that is the
\* unknown sentinel or at least MIN_LIQUIDITY_USD, and is no pool of the store
\* with a known estimate below the floor.
C26_EvaluatedPoolsAboveFloor ==
    calc # NoCycle =>
        \A pool \in {calc.pool1, calc.pool2, calc.pool3} :
            /\ AboveFloorOrUnknown(pool)
            /\ pool.address \notin BelowFloor

\* The finder has gone through a store whose index joins three pools to a
\* cycle from a priority token, one of them with a known estimate below the
\* floor and one with an unknown estimate, and has returned without
\* evaluating a cycle.
C26_Witness ==
    /\ finder.pc = "done"
    /\ calc = NoCycle
    /\ \E a, b, c \in DOMAIN poolsMap :
        /\ a \in BelowFloor
        /\ ~poolsMap[b].liquidityUSD.known
        /\ \E s \in PriorityTokenAddresses :
            LET mid  == OtherToken(poolsMap[a], s)
                dest == OtherToken(poolsMap[b], mid)
            IN  /\ a \in PoolsOf(tokenPools, s)
                /\ b \in PoolsOf(tokenPools, mid) /\ b # a
                /\ c \in PoolsOf(tokenPools, dest) /\ c \notin {a, b}
                /\ dest # s
                /\ OtherToken(poolsMap[c], dest) = s

\* The opportunity lacks its start token, its path or its test results, or
\* has a zero expected profit, profit percent or net profit.
Incomplete(o) ==
    \/ o.startToken = NoAddr
    \/ o.path = <<>>
    \/ o.testResults = <<>>
    \/ o.expectedProfit = 0
    \/ o.profitPercent = 0
    \/ o.netProfit = 0

\* bestAmount is below the least amount that is dispatched.
BelowMinimumNotional(o) == o.bestAmount < 100 \/ o.bestAmount <= TX_MIN_BEST_AMOUNT

\* C27: no job in the queue, primary or scaled, is for an opportunity that is
\* structurally incomplete or whose bestAmount is below the minimum notional.
C27_NoJobForInvalidOpportunity ==
    \A i \in DOMAIN arbitrageQueue :
        /\ ~Incomplete(arbitrageQueue[i].opportunity)
        /\ ~BelowMinimumNotional(arbitrageQueue[i].opportunity)

\* The finder has returned an opportunity above the threshold whose bestAmount
\* is below the minimum notional, and the dispatches of the run are over with
\* no job for it in the queue.
C27_Witness ==
    /\ finder.pc = "done"
    /\ sending = <<>>
    /\ \E k \in DOMAIN reported :
        /\ BelowMinimumNotional(reported[k])
        /\ ~Incomplete(reported[k])
        /\ \A i \in DOMAIN arbitrageQueue : arbitrageQueue[i].opportunity # reported[k]

\* The finder with the clock running and resetPoolSelection called between
\* its steps, as the reset check and the catch block of the load call it.  The
\* jobs the finder has handed to sendArbitrage stay suspended at queue.add.
IdleTimerNext ==
    \/ findArbitrageOpportunities
    \/ EvaluateCycle
    \/ FinderReturn
    \/ SchedAdvance
    \/ resetPoolSelection

\* The stores loaded at instant 0, from which the clock has instants to go.
InitIdleTimer == InitFinder /\ now = PRIORITY_REFRESH_INTERVAL

SpecIdleTimer == InitIdleTimer /\ [][IdleTimerNext]_vars

\* The cycle evaluated last was returned with a profit percent above the
\* threshold.
CycleQualifies(c, args) ==
    /\ c.returned # <<>>
    /\ c.returned[1].profitPercent > Threshold(args)

\* C32: lastProfitFound never decreases; it changes only when
\* resetPoolSelection runs or the finder has a cycle whose profitPercent
\* exceeds the threshold; a cycle that does not qualify leaves it unchanged,
\* and one that qualifies sets it to the clock, dispatched or not.
C32_IdleTimerMovesOnResetOrProfit ==
    [][/\ lastProfitFound' >= lastProfitFound
       /\ lastProfitFound' # lastProfitFound =>
             \/ lastOp'.op = "resetPoolSelection"
             \/ /\ lastOp'.op = "calculateTriangularArbitrage"
                /\ CycleQualifies(calc', INPUT_ARGS)
       /\ lastOp'.op = "calculateTriangularArbitrage" =>
             lastProfitFound' = IF CycleQualifies(calc', INPUT_ARGS) THEN now'
                                ELSE lastProfitFound]_vars

\* The finder has evaluated a qualifying cycle later than a reset, with the
\* idle timer at the clock, and validation has kept the cycle from the queue.
C32_Witness ==
    /\ lastOp.op = "calculateTriangularArbitrage"
    /\ CycleQualifies(calc, INPUT_ARGS)
    /\ ~ReachesQueue(calc.returned[1])
    /\ lastProfitFound = now
    /\ now = 1000000

-----------------------------------------------------------------------------
(* The reset check on its timer (monitor.ts): setInterval runs the body     *)
(* once every CHECK_INTERVAL from the instant startMonitoring registers it, *)
(* which is when the initial load has returned.  Instants are counted from  *)
(* the registration, and the clock is read at the instants of the timer.    *)
(* No opportunity clears the threshold: the refresh passes then write       *)
(* neither scanPaused nor lastProfitFound and are not part of this          *)
(* specification.                                                           *)

CHECK_INTERVAL == 60000

\* The times the timer runs its body.
MaxChecks == 33

\* How long before the registration config.state was built: the time the
\* initial load took.
InitialLoadTimes == {0, CHECK_INTERVAL \div 2, RESET_INTERVAL}

WatchdogStoreInit ==
    /\ now = 0
    /\ poolsMap = EmptyMap
    /\ tokenPools = EmptyMap
    /\ tokenCache = EmptyMap
    /\ currentPoolIndices = {}
    /\ lastProfitFound \in {0 - d : d \in InitialLoadTimes}
    /\ totalPools = 0
    /\ RANDOM_END = 10000
    /\ loads = [i \in Slots |-> IdleLoad]
    /\ ret = NoRet
    /\ lastOp = Op("step")

\* A check period passes and the timer calls the body.  The time a load
\* attempt takes is spent at allPairsLength() and in the wait of the catch
\* block; the loads of the pairs answer at once.
ResetCheckCalled ==
    /\ lastOp.op # "tick"
    /\ monitor = "running"
    /\ \A l \in Loaders : loaders[l].pc \in {"idle", "length", "backoff"}
    /\ now + CHECK_INTERVAL <= MaxChecks * CHECK_INTERVAL
    /\ now' = now + CHECK_INTERVAL
    /\ lastOp' = Op("tick")
    /\ UNCHANGED <<poolsMap, tokenPools, tokenCache, currentPoolIndices,
                   lastProfitFound, totalPools, RANDOM_END, loads, ret>>
    /\ UNCHANGED <<histVars, flashSwap, finderVars, schedVars>>

\* The body returns at one of its guards.
ResetCheckReturns ==
    /\ lastOp.op = "tick"
    /\ \/ scanPaused \/ DEBUG
       \/ ~(now - lastProfitFound > RESET_INTERVAL)
    /\ lastOp' = Op("resetCheckReturned")
    /\ UNCHANGED <<storeVars, histVars, flashSwap, finderVars, schedVars>>

\* The samples the draws of generateRandomPoolIndices give in these runs.
WatchdogSamples == {{2, 6}, {5, 6}}

SampleDrawn == currentPoolIndices' \in {currentPoolIndices} \cup WatchdogSamples

\* The body passes its guards.
ResetCheckFires ==
    lastOp.op = "tick" /\ \E l \in Loaders : ResetTimer(l) /\ SampleDrawn

WatchdogNext ==
    \/ ResetCheckCalled
    \/ ResetCheckReturns
    \/ ResetCheckFires
    \/ lastOp.op # "tick" /\ startMonitoring
    \/ lastOp.op # "tick" /\ \E l \in Loaders : LengthReturns(l) /\ SampleDrawn
    \/ lastOp.op # "tick" /\ \E l \in Loaders : LengthFails(l) /\ SampleDrawn
    \/ lastOp.op # "tick" /\ \E l \in Loaders : BackoffEnds(l)
    \/ lastOp.op # "tick" /\ \E l \in Loaders : PriorityLoaded(l, {})
    \/ lastOp.op # "tick" /\ \E l \in Loaders : RandomLoaded(l, {}) /\ SampleDrawn

InitWatchdog == WatchdogStoreInit /\ HistIdle /\ SchedInit /\ FinderIdle /\ FlashSwapInit

SpecWatchdog == InitWatchdog /\ [][WatchdogNext]_vars

\* The reset check fires only when more than RESET_INTERVAL has passed since
\* the idle timestamp was last set and since the watchdog fired last.
FiresOncePerWindow ==
    [][resets' # resets =>
          /\ now' - lastProfitFound > RESET_INTERVAL
          /\ resets # <<>> => now' - resets[Len(resets)] > RESET_INTERVAL]_vars

\* Once the watchdog has fired, two whole windows never pass after the idle
\* timestamp was last set without the watchdog firing again.
NeverSkipsWindow ==
    [](~DEBUG /\ resets # <<>> /\ lastOp.op # "tick"
          => now - lastProfitFound < 2 * RESET_INTERVAL)

\* The watchdog passes over an elapsed window only while a load has the scan
\* paused.
SkipsOnlyWhilePaused ==
    [][lastOp'.op = "resetCheckReturned" /\ ~DEBUG /\ ~scanPaused
          => now' - lastProfitFound <= RESET_INTERVAL]_vars

\* C11: with debug off and no opportunity clearing the threshold, the reset
\* fires exactly once for each 15-minute window elapsed since the idle
\* timestamp was last set: never twice within a window, never skipping one.
C11_ResetOncePerWindow == FiresOncePerWindow /\ NeverSkipsWindow

\* C11, amended: the reset never fires twice within a window, and a check
\* leaves an elapsed window without a reset only while a load has the scan
\* paused.
C11_ResetOncePerWindowUnlessPaused == FiresOncePerWindow /\ SkipsOnlyWhilePaused

\* The watchdog has fired twice, the second time at the first tick that found
\* the window elapsed.
C11_Witness ==
    /\ ~DEBUG
    /\ Len(resets) = 2
    /\ resets[2] - resets[1] = RESET_INTERVAL + CHECK_INTERVAL
    /\ lastOp.op = "resetTimer"

\* The loadInitialPoolData calls whose retry loop has not returned.
LoadsInProgress == {l \in Loaders : loaders[l].pc # "idle"}

\* C37: at most one loadInitialPoolData retry loop is in progress at any
\* time: while a reload started by the reset check is still retrying, the
\* reset check starts no second reload.
C37_AtMostOneLoadInProgress == Cardinality(LoadsInProgress) <= 1

\* C37, what holds: the reset check starts a reload only with scanPaused
\* false, which during a load is so from the end of its first failed attempt,
\* and the reload it starts sets scanPaused.
C37_ReloadStartsOnlyUnpaused ==
    [][resets' # resets => ~scanPaused /\ ~DEBUG /\ scanPaused']_vars

\* The reset check has just started a reload while the reload it started a
\* window earlier is still waiting for the registry size.
C37_Witness ==
    /\ lastOp.op = "resetTimer"
    /\ Len(resets) >= 2
    /\ Cardinality(LoadsInProgress) = 2
    /\ \E l \in Loaders : loaders[l] = [pc |-> "length", origin |-> "reset"]

-----------------------------------------------------------------------------
(* The loads of one batch, suspended together (Promise.all over             *)
(* loadPoolByIndex in loadInitialPoolData), and the token cache.            *)

\* The pairs of the batch: both hold XTK.
BatchPairs == {"P_CAKE_XTK", "P_XTK_BUSD"}

\* The loads of the batch that are suspended at the same time.
MaxBatchLoads == 2

\* The store when the first batch of loadInitialPoolData starts.
BatchStoreInit ==
    /\ now = 0
    /\ poolsMap = EmptyMap
    /\ tokenPools = EmptyMap
    /\ tokenCache = EmptyMap
    /\ currentPoolIndices = {RegistryIndex(p) : p \in BatchPairs}
    /\ lastProfitFound = 0
    /\ totalPools = Len(ChainPairs)
    /\ RANDOM_END = Len(ChainPairs) - 1
    /\ loads = [i \in 1..MaxBatchLoads |-> IdleLoad]
    /\ ret = NoRet
    /\ lastOp = Op("step")

BatchNext ==
    \/ \E pid \in BatchPairs, force \in BOOLEAN :
          LoadPoolDataCall(pid, RegistryIndex(pid), force)
    \/ \E i \in DOMAIN loads : ReadsReturn(i)
    \/ \E i \in DOMAIN loads, k \in {0, 1}, symbolOk \in BOOLEAN, decimalsOk \in BOOLEAN :
          TokenInfoReturn(i, k, symbolOk, decimalsOk)
    \/ \E i \in DOMAIN loads : LoadFinish(i)
    \/ resetPoolSelection

InitBatch == BatchStoreInit /\ HistIdle /\ SchedIdle /\ FinderIdle /\ FlashSwapInit

SpecBatch == InitBatch /\ [][BatchNext]_vars

\* What a getTokenInfo call made in this step for a token got at once.
InfoAtCall(i, k) == IF k = 0 THEN loads'[i].info0 ELSE loads'[i].info1

\* A getTokenInfo call for an address that has an entry returns that entry
\* and issues no read.
LaterCallServedFromCache ==
    \A i \in DOMAIN loads :
        loads[i].pc = "reads" /\ loads'[i].pc = "tokens" =>
            \A k \in {0, 1} :
                LET a == toLowerCase(IF k = 0 THEN loads'[i].token0 ELSE loads'[i].token1) IN
                a \in DOMAIN tokenCache =>
                    /\ InfoAtCall(i, k).got
                    /\ InfoAtCall(i, k).symbol = tokenCache[a].symbol
                    /\ InfoAtCall(i, k).decimals = tokenCache[a].decimals

\* No entry of the token cache is removed.
EntryNeverRemoved == DOMAIN tokenCache \subseteq DOMAIN tokenCache'

\* No entry of the token cache is changed.
EntryNeverChanged ==
    \A a \in DOMAIN tokenCache \cap DOMAIN tokenCache' : tokenCache'[a] = tokenCache[a]

\* An entry changes only when a getTokenInfo call that found no entry when it
\* was made writes the answers it got.
ChangedOnlyByEarlierCall ==
    \A a \in DOMAIN tokenCache \cap DOMAIN tokenCache' :
        tokenCache'[a] # tokenCache[a] =>
            \E i \in DOMAIN loads :
                /\ loads[i].pc = "tokens"
                /\ \/ toLowerCase(loads[i].token0) = a /\ ~loads[i].info0.got
                   \/ toLowerCase(loads[i].token1) = a /\ ~loads[i].info1.got

\* C15: once getTokenInfo has stored an entry for an address, every later
\* getTokenInfo for that address returns that entry without reading the
\* chain, and no operation, resetPoolSelection and reloads included, changes
\* or removes the entry.
C15_TokenEntryImmutable ==
    [][LaterCallServedFromCache /\ EntryNeverRemoved /\ EntryNeverChanged]_vars

\* C15, what holds: a later call is served from the cache, no entry is ever
\* removed, and an entry is changed only by a getTokenInfo call that was made
\* before the entry was stored.
C15_TokenEntryKeptButForEarlierCalls ==
    [][LaterCallServedFromCache /\ EntryNeverRemoved /\ ChangedOnlyByEarlierCall]_vars

\* A stored pool carries 8 decimals for XTK while the cache entry of XTK says
\* 18: the entry the record was built from has been replaced.
C15_Witness ==
    \E a \in DOMAIN poolsMap :
        /\ poolsMap[a].token1.address = toLowerCase(Addr("XTK"))
        /\ toLowerCase(Addr("XTK")) \in DOMAIN tokenCache
        /\ poolsMap[a].token1.decimals # tokenCache[toLowerCase(Addr("XTK"))].decimals

-----------------------------------------------------------------------------
(* generateRandomPoolIndices on its own, for small arguments.               *)

\* The largest count, min, max and totalPools the calls are made with.
MaxIndexArg == 4

\* A generateRandomPoolIndices call with its arguments.
DrawOp(count, min, max) ==
    [op |-> "generateRandomPoolIndices", count |-> count, min |-> min, max |-> max]

\* The factory knows some number of pairs; nothing has been drawn yet.
IndicesStoreInit ==
    /\ now = 0
    /\ poolsMap = EmptyMap
    /\ tokenPools = EmptyMap
    /\ tokenCache = EmptyMap
    /\ currentPoolIndices = {}
    /\ lastProfitFound = 0
    /\ totalPools \in 0..MaxIndexArg
    /\ RANDOM_END = 10000
    /\ loads = [i \in Slots |-> IdleLoad]
    /\ ret = NoRet
    /\ lastOp = Op("step")

\* currentPoolIndices = generateRandomPoolIndices(count, min, max)
DrawIndices(count, min, max) ==
    /\ currentPoolIndices' \in generateRandomPoolIndices(count, min, max, totalPools)
    /\ lastOp' = DrawOp(count, min, max)
    /\ ret' = NoRet
    /\ UNCHANGED nonStoreVars
    /\ UNCHANGED <<now, poolsMap, tokenPools, tokenCache, lastProfitFound, totalPools,
                   RANDOM_END, loads>>

IndicesNext ==
    \E count \in 0..MaxIndexArg, min \in 0..MaxIndexArg, max \in 0..MaxIndexArg :
        DrawIndices(count, min, max)

InitIndices == IndicesStoreInit /\ HistIdle /\ SchedIdle /\ FinderIdle /\ FlashSwapInit

SpecIndices == InitIndices /\ [][IndicesNext]_vars

\* The upper end of the range of a call: min(max, totalPools - 1).
RangeEnd == Min(lastOp.max, totalPools - 1)

\* The number of indices in [min, min(max, totalPools - 1)].
RangeSize == Max(0, RangeEnd - lastOp.min + 1)

\* C17: for all count, min, max and totalPools, generateRandomPoolIndices
\* returns distinct indices that all lie in [min, min(max, totalPools - 1)],
\* and min(count, size of that range) of them, none when the range is empty:
\* never more than count indices, never an index below min.
C17_IndicesInRangeAndCounted ==
    lastOp.op = "generateRandomPoolIndices" =>
        /\ \A i \in currentPoolIndices : lastOp.min <= i /\ i <= RangeEnd
        /\ Cardinality(currentPoolIndices) = Min(lastOp.count, RangeSize)

\* C17, what holds: no index is above min(max, totalPools - 1); the indices
\* in the range number at least min(count, size of the range); the others,
\* and those beyond that number, are among the POOLS_NEWLY_ADDED indices that
\* end at min(max, totalPools - 1).
C17_IndicesBoundedAbove ==
    lastOp.op = "generateRandomPoolIndices" =>
        LET newly   == (RangeEnd - POOLS_NEWLY_ADDED + 1)..RangeEnd
            inRange == {i \in currentPoolIndices : lastOp.min <= i}
        IN  /\ \A i \in currentPoolIndices : i <= RangeEnd
            /\ newly \subseteq currentPoolIndices
            /\ currentPoolIndices \ inRange \subseteq newly
            /\ Cardinality(inRange \ newly) <= Min(lastOp.count, RangeSize)
            /\ Cardinality(inRange) >= Min(lastOp.count, RangeSize)

\* A call for one index out of [0, 3] has returned two.
C17_Witness ==
    /\ lastOp.op = "generateRandomPoolIndices"
    /\ lastOp.count = 1
    /\ lastOp.min = 0
    /\ RangeEnd = 3
    /\ Cardinality(currentPoolIndices) = 2

-----------------------------------------------------------------------------
(* sendArbitrage called on its own, as test_main calls it, over stores of   *)
(* many liquidities.                                                        *)

\* The reserve each side of a stored pool may hold, in whole tokens.
DispatchReserves == {0, 500, 10000, 15000, 25000, 40000, 50000, 600000}

\* The dispatches of one run.
MaxDispatches == 2

\* The pools of the two cycles that are dispatched, hop by hop: one through
\* three pools with a stablecoin side, one whose first pool has none.
DispatchPaths ==
    {<<"P_BUSD_CAKE", "P_CAKE_USDT", "P_USDT_BUSD">>,
     <<"P_CAKE_WBNB", "P_WBNB_BUSD", "P_BUSD_CAKE">>}

\* The store and the index at the time the cycles were evaluated.
EvaluatedStore ==
    [a \in {toLowerCase(Addr(p)) : p \in FinderPairs} |-> PoolRecord(a, RegistryIndex(a.id), 0)]

DispatchCycles ==
    {c \in CycleSet(EvaluatedStore, IndexAll(EmptyMap, DOMAIN EvaluatedStore)) :
        <<c.pool1.address.id, c.pool2.address.id, c.pool3.address.id>> \in DispatchPaths}

\* The profit percents of the four test amounts of a dispatched opportunity,
\* and then the number of sizes, smallest first, that the router verified; the
\* larger ones carry the local estimate only.
DispatchProfiles ==
    {<<40, 970, 970, 970, 4>>, <<40, 40, 100, 100, 4>>, <<40, 100, 470, 970, 4>>,
     <<0 - 60, 40, 0 - 60, 0 - 60, 4>>, <<10, 20, 64, 70, 2>>}

\* Test results with the profit percents of a profile.
ProfileResults(profile) ==
    [k \in DOMAIN TEST_AMOUNTS |->
        LET amount == TEST_AMOUNTS[k]
            profit == profile[k] * amount
        IN  [amount |-> amount, profit |-> profit, profitPercent |-> profile[k],
             netProfit |-> profit,
             endAmount |-> ToUnits(amount) + amount * 30 + profit,
             localEstimate |-> ToUnits(amount) + amount * 30 + profit,
             gasCost |-> 0, skippedOnChain |-> k > profile[5]]]

\* What calculateTriangularArbitrage returns for a cycle with these results.
DispatchOpportunity(c, profile) ==
    Opportunity(c, tokenCache, ProfileResults(profile),
                BestAfter(ProfileResults(profile), Len(TEST_AMOUNTS)))

\* The record of a pair with the same reserve on both sides.
ReserveRecord(a, r) ==
    LET pr == ChainPairs[PairOf(a.id)] IN
    BuildPoolData(a, RegistryIndex(a.id), Addr(pr.t0), Addr(pr.t1),
                  Raw(r, TrueDecimals(pr.t0)), Raw(r, TrueDecimals(pr.t1)),
                  [got |-> TRUE, symbol |-> pr.t0, decimals |-> TrueDecimals(pr.t0)],
                  [got |-> TRUE, symbol |-> pr.t1, decimals |-> TrueDecimals(pr.t1)], 0)

\* The store at dispatch: some of the pools of one cycle, each with some
\* reserves; a reset or a failed reload has left the others out.
DispatchStoreInit ==
    \E path \in DispatchPaths :
        \E stored \in SUBSET {toLowerCase(Addr(path[h])) : h \in 1..3} :
            \E r \in [stored -> DispatchReserves] :
                /\ now = 0
                /\ poolsMap = [a \in stored |-> ReserveRecord(a, r[a])]
                /\ tokenPools = IndexAll(EmptyMap, DOMAIN EvaluatedStore)
                /\ tokenCache = CacheAll(EmptyMap, DOMAIN EvaluatedStore)
                /\ currentPoolIndices = {RegistryIndex(a.id) : a \in stored}
                /\ lastProfitFound = 0
                /\ totalPools = Len(ChainPairs)
                /\ RANDOM_END = Len(ChainPairs) - 1
                /\ loads = [i \in Slots |-> IdleLoad]
                /\ ret = NoRet
                /\ lastOp = Op("step")

\* sendArbitrage(opportunityData) up to its queue.add.
sendArbitrage(opportunityData) ==
    /\ Cardinality({i \in DOMAIN arbitrageQueue : arbitrageQueue[i].primary}) < MaxDispatches
    /\ Sendable(opportunityData)
    /\ arbitrageQueue' = Append(arbitrageQueue, PrimaryJob(opportunityData, poolsMap))
    /\ sending' = Append(sending, PrimaryJob(opportunityData, poolsMap))
    /\ lastOp' = Op("sendArbitrage")
    /\ ret' = NoRet
    /\ UNCHANGED <<now, poolsMap, tokenPools, tokenCache, currentPoolIndices,
                   lastProfitFound, totalPools, RANDOM_END, loads>>
    /\ UNCHANGED <<INPUT_ARGS, quotes, finder, reported, calc>>
    /\ UNCHANGED <<histVars, flashSwap, schedVars>>

DispatchNext ==
    \/ \E c \in DispatchCycles, profile \in DispatchProfiles :
          /\ DOMAIN poolsMap \subseteq {c.pool1.address, c.pool2.address, c.pool3.address}
          /\ sendArbitrage(DispatchOpportunity(c, profile))
    \/ sendAnotherArbitrage

InitDispatch == DispatchStoreInit /\ HistIdle /\ SchedIdle /\ FinderIdle /\ FlashSwapInit

SpecDispatch == InitDispatch /\ [][DispatchNext]_vars

\* The pool of hop h of a job's path has a known liquidity above zero in the
\* store.
HopLiquidityKnown(job, h) ==
    LET a == job.opportunity.path[h].poolAddress IN
    /\ a \in DOMAIN poolsMap
    /\ poolsMap[a].liquidityUSD.known
    /\ poolsMap[a].liquidityUSD.usd > 0

\* The share bestAmount / liquidity * 100 of hop h is above pct.
ShareAbove(job, h, pct) ==
    /\ HopLiquidityKnown(job, h)
    /\ job.opportunity.bestAmount * 100
           > pct * poolsMap[job.opportunity.path[h].poolAddress].liquidityUSD.usd

\* C18: the primary job carries three slippage values, one per hop, each
\* set by the share of bestAmount in the liquidity of the hop's pool: 990
\* above 5, 992 above 2 up to 5, 995 above 1 up to 2, and 997 otherwise, also
\* when the pool is not in the store or its liquidity is unknown or zero.
C18_SlippageByLiquidityShare ==
    \A i \in DOMAIN arbitrageQueue :
        LET job == arbitrageQueue[i] IN
        job.primary =>
            /\ Len(job.payload.slippages) = 3
            /\ Len(job.opportunity.path) = 3
            /\ \A h \in 1..3 :
                job.payload.slippages[h] =
                    IF ShareAbove(job, h, 5) THEN 990
                    ELSE IF ShareAbove(job, h, 2) THEN 992
                    ELSE IF ShareAbove(job, h, 1) THEN 995
                    ELSE 997

\* A primary job is in the queue with 992 for a hop whose share is exactly 5,
\* and with the default for a hop whose pool is not in the store or has no
\* known liquidity above zero.
C18_Witness ==
    \E i \in DOMAIN arbitrageQueue :
        LET job == arbitrageQueue[i] IN
        /\ job.primary
        /\ \E h \in 1..3 :
            /\ job.payload.slippages[h] = 992
            /\ HopLiquidityKnown(job, h)
            /\ job.opportunity.bestAmount * 100
                   = 5 * poolsMap[job.opportunity.path[h].poolAddress].liquidityUSD.usd
        /\ \E h \in 1..3 : ~HopLiquidityKnown(job, h) /\ job.payload.slippages[h] = 997
        /\ \E h \in 1..3 : job.payload.slippages[h] = 995

\* The deviation from the expected output that hop h of a job accepts, in
\* thousandths: placeTrade takes amountOutMin = expectedAmount * slippage / 1000.
AcceptedDeviation(job, h) == 1000 - job.payload.slippages[h]

\* Two primary jobs over the same pool at hop h, the first for the smaller
\* amount.
SamePoolSmallerFirst(j1, j2, h) ==
    /\ j1.primary /\ j2.primary
    /\ j1.opportunity.path[h].poolAddress = j2.opportunity.path[h].poolAddress
    /\ j1.opportunity.bestAmount < j2.opportunity.bestAmount

\* C19: the tolerance of a hop gets tighter as the share of the trade in the
\* pool's liquidity grows: for one pool liquidity and amounts a1 < a2, the
\* deviation the hop accepts for a2 is at most the one it accepts for a1.
C19_ToleranceTighterWithShare ==
    \A i, j \in DOMAIN arbitrageQueue : \A h \in 1..3 :
        SamePoolSmallerFirst(arbitrageQueue[i], arbitrageQueue[j], h) =>
            AcceptedDeviation(arbitrageQueue[j], h) <= AcceptedDeviation(arbitrageQueue[i], h)

\* C19, what holds: for one pool liquidity and amounts a1 < a2, the deviation
\* the hop accepts for a2 is at least the one it accepts for a1, and both are
\* among 3, 5, 8 and 10 thousandths.
C19_ToleranceLooserWithShare ==
    \A i, j \in DOMAIN arbitrageQueue : \A h \in 1..3 :
        SamePoolSmallerFirst(arbitrageQueue[i], arbitrageQueue[j], h) =>
            /\ AcceptedDeviation(arbitrageQueue[i], h) <= AcceptedDeviation(arbitrageQueue[j], h)
            /\ {AcceptedDeviation(arbitrageQueue[i], h), AcceptedDeviation(arbitrageQueue[j], h)}
                   \subseteq {3, 5, 8, 10}

\* Two primary jobs over one store are in the queue, for 100 and for 10000
\* tokens: a hop accepts 3 thousandths for the first and 10 for the second.
C19_Witness ==
    \E i, j \in DOMAIN arbitrageQueue : \E h \in 1..3 :
        /\ SamePoolSmallerFirst(arbitrageQueue[i], arbitrageQueue[j], h)
        /\ arbitrageQueue[i].opportunity.bestAmount = 100
        /\ arbitrageQueue[j].opportunity.bestAmount = 10000
        /\ AcceptedDeviation(arbitrageQueue[i], h) = 3
        /\ AcceptedDeviation(arbitrageQueue[j], h) = 10

\* Job i is a scaled job and job p the primary job of the same opportunity,
\* queued before it.
ScaledAfterPrimary(i, p) ==
    /\ p < i
    /\ ~arbitrageQueue[i].primary
    /\ arbitrageQueue[p].primary
    /\ arbitrageQueue[p].opportunity = arbitrageQueue[i].opportunity

\* The known liquidities above zero of the pools of a job's path.
KnownLiquidities(job) ==
    {poolsMap[job.opportunity.path[h].poolAddress].liquidityUSD.usd :
        h \in {k \in 1..3 : HopLiquidityKnown(job, k)}}

\* C20: a scaled job borrows strictly more than the primary job of its
\* opportunity, in the same decimals, whatever the liquidities of the three
\* pools are.
C20_ScaledJobBorrowsMore ==
    \A i \in DOMAIN arbitrageQueue :
        ~arbitrageQueue[i].primary =>
            \E p \in DOMAIN arbitrageQueue :
                /\ ScaledAfterPrimary(i, p)
                /\ arbitrageQueue[i].payload.borrowAmount.exp
                       = arbitrageQueue[p].payload.borrowAmount.exp
                /\ arbitrageQueue[i].payload.borrowAmount.mant
                       > arbitrageQueue[p].payload.borrowAmount.mant

\* C20, what holds: a scaled job follows the primary job of its opportunity
\* and borrows, in the same decimals, a multiple of 100 tokens that is at
\* most 100000 and at most 1.5% of the least known liquidity of the three
\* pools; it borrows 100000 when no pool has a known liquidity above zero.
C20_ScaledJobBorrowsSafeAmount ==
    \A i \in DOMAIN arbitrageQueue :
        ~arbitrageQueue[i].primary =>
            LET amount == arbitrageQueue[i].payload.borrowAmount.mant
                known  == KnownLiquidities(arbitrageQueue[i])
            IN  /\ \E p \in DOMAIN arbitrageQueue :
                    /\ ScaledAfterPrimary(i, p)
                    /\ arbitrageQueue[i].payload.borrowAmount.exp
                           = arbitrageQueue[p].payload.borrowAmount.exp
                /\ amount % 100 = 0
                /\ 0 <= amount /\ amount <= 100000
                /\ \A l \in known : amount * 1000 <= l * 15
                /\ known = {} => amount = 100000

\* sendAnotherArbitrage has queued a scaled job that borrows some tokens, and
\* fewer than the primary job of its opportunity.
C20_Witness ==
    \E i, p \in DOMAIN arbitrageQueue :
        /\ ScaledAfterPrimary(i, p)
        /\ arbitrageQueue[i].payload.borrowAmount.mant > 0
        /\ arbitrageQueue[i].payload.borrowAmount.mant
               < arbitrageQueue[p].payload.borrowAmount.mant

-----------------------------------------------------------------------------
(* calculateLocalTradeOutput in floating point.  A JavaScript number is a   *)
(* binary floating-point value; here it keeps SignificandBits significant   *)
(* bits instead of 53, and every product, sum and quotient is rounded to    *)
(* the nearest value, ties to even, as IEEE 754 does.                        *)

\* The significant bits a number keeps.
SignificandBits == 10

RECURSIVE Pow2(_)
Pow2(n) == IF n = 0 THEN 1 ELSE 2 * Pow2(n - 1)

RECURSIVE BitLength(_)
BitLength(n) == IF n = 0 THEN 0 ELSE 1 + BitLength(n \div 2)

\* The number nearest to n * 2^e, for n > 0: m * 2^e with
\* 2^(SignificandBits - 1) <= m < 2^SignificandBits.
RoundToNearest(n, e) ==
    LET s == BitLength(n) - SignificandBits IN
    IF s <= 0 THEN [m |-> n * Pow2(0 - s), e |-> e + s]
    ELSE LET q    == n \div Pow2(s)
             r    == n % Pow2(s)
             half == Pow2(s - 1)
             up   == IF r > half \/ (r = half /\ q % 2 = 1) THEN q + 1 ELSE q
         IN  IF up = Pow2(SignificandBits)
             THEN [m |-> Pow2(SignificandBits - 1), e |-> e + s + 1]
             ELSE [m |-> up, e |-> e + s]

\* The number of an integer literal.
NumberOf(n) == RoundToNearest(n, 0)

\* a * b
Times(a, b) == RoundToNearest(a.m * b.m, a.e + b.e)

\* a + b, for positive a and b: an operand below a quarter of the last place
\* of the other leaves the other as the sum.
Plus(a, b) ==
    LET big   == IF a.e >= b.e THEN a ELSE b
        small == IF a.e >= b.e THEN b ELSE a
        d     == big.e - small.e
    IN  IF d >= SignificandBits + 2 THEN big
        ELSE RoundToNearest(big.m * Pow2(d) + small.m, small.e)

\* a / b: the quotient to three more bits than a number keeps, and one more
\* bit that tells whether anything is left over.
DividedBy(a, b) ==
    LET k == SignificandBits + 3
        q == (a.m * Pow2(k)) \div b.m
        r == (a.m * Pow2(k)) % b.m
    IN  RoundToNearest(2 * q + (IF r = 0 THEN 0 ELSE 1), a.e - b.e - k - 1)

\* a < b, for positive a and b.
LessThan(a, b) == a.e < b.e \/ (a.e = b.e /\ a.m < b.m)

\* The literal 0.997.
Fee997 == DividedBy(NumberOf(997), NumberOf(1000))

\* (reserveOut * currentAmount * 0.997) / (reserveIn + currentAmount * 0.997)
HopOutputNumber(reserveIn, reserveOut, currentAmount) ==
    DividedBy(Times(Times(reserveOut, currentAmount), Fee997),
              Plus(reserveIn, Times(currentAmount, Fee997)))

\* currentAmount after each hop of the loop of calculateLocalTradeOutput;
\* reserves[h] holds Number(reserveIn) and Number(reserveOut) of hop h.
RECURSIVE LocalTradeOutputs(_, _)
LocalTradeOutputs(currentAmount, reserves) ==
    IF reserves = <<>> THEN <<>>
    ELSE With(HopOutputNumber(Head(reserves).reserveIn, Head(reserves).reserveOut,
                              currentAmount),
              LAMBDA out : <<out>> \o LocalTradeOutputs(out, Tail(reserves)))

\* Number(reserve) of the pools of a path: a reserve of 2^-20 token, of 30016,
\* of 60032 and of 80000 tokens.
HopReserves ==
    {[m |-> 512, e |-> 0 - 29], [m |-> 938, e |-> 5], [m |-> 938, e |-> 6],
     [m |-> 625, e |-> 7]}

\* A calculateLocalTradeOutput call with its amount and the reserves it reads.
LocalOp(name, amount, reserves) ==
    [op |-> name, amount |-> amount, reserves |-> reserves]

\* The reserves of the three pools of a path; nothing has been computed yet.
LocalStoreInit ==
    /\ now = 0
    /\ poolsMap = EmptyMap
    /\ tokenPools = EmptyMap
    /\ tokenCache = EmptyMap
    /\ currentPoolIndices = {}
    /\ lastProfitFound = 0
    /\ totalPools = 0
    /\ RANDOM_END = 10000
    /\ loads = [i \in Slots |-> IdleLoad]
    /\ ret = NoRet
    /\ \E r \in [1..3 -> [reserveIn : HopReserves, reserveOut : HopReserves]] :
          lastOp = LocalOp("step", 0, r)

\* calculateLocalTradeOutput(amount, path, reserves, ...) for a test amount.
LocalTradeOutputCall(k) ==
    /\ lastOp' = LocalOp("calculateLocalTradeOutput", TEST_AMOUNTS[k], lastOp.reserves)
    /\ ret' = [outs |-> LocalTradeOutputs(NumberOf(TEST_AMOUNTS[k]), lastOp.reserves)]
    /\ UNCHANGED nonStoreVars
    /\ UNCHANGED <<now, poolsMap, tokenPools, tokenCache, currentPoolIndices,
                   lastProfitFound, totalPools, RANDOM_END, loads>>

LocalNext == \E k \in DOMAIN TEST_AMOUNTS : LocalTradeOutputCall(k)

InitLocal == LocalStoreInit /\ HistIdle /\ SchedIdle /\ FinderIdle /\ FlashSwapInit

SpecLocal == InitLocal /\ [][LocalNext]_vars

\* The test amounts below the amount of the last call.
SmallerAmounts == {k \in DOMAIN TEST_AMOUNTS : TEST_AMOUNTS[k] < lastOp.amount}

\* C25: for positive reserves the output of a hop is strictly below the
\* reserve it is paid from and strictly larger than the output of the same hop
\* for a smaller amount; over the three hops a larger start amount never gives
\* a smaller end amount.
C25_LocalOutputIncreasingBelowReserve ==
    lastOp.op = "calculateLocalTradeOutput" =>
        /\ \A h \in 1..3 : LessThan(ret.outs[h], lastOp.reserves[h].reserveOut)
        /\ \A k \in SmallerAmounts :
            LessThan(HopOutputNumber(lastOp.reserves[1].reserveIn,
                                     lastOp.reserves[1].reserveOut,
                                     NumberOf(TEST_AMOUNTS[k])),
                     ret.outs[1])
        /\ \A k \in SmallerAmounts :
            ~LessThan(ret.outs[3],
                      LocalTradeOutputs(NumberOf(TEST_AMOUNTS[k]), lastOp.reserves)[3])

\* For a pool with positive reserves, calculateLocalTradeOutput has returned
\* for 100 tokens the whole reserve of the side it pays from, the same output
\* as for 1 token.
C25_Witness ==
    /\ lastOp.op = "calculateLocalTradeOutput"
    /\ lastOp.amount = 100
    /\ ret.outs[1] = lastOp.reserves[1].reserveOut
    /\ HopOutputNumber(lastOp.reserves[1].reserveIn, lastOp.reserves[1].reserveOut,
                       NumberOf(1)) = ret.outs[1]

-----------------------------------------------------------------------------
(* sendArbitrage in testing mode, as test_main calls it.                    *)

\* isTesting && JOB_NAME === "flash": the call throws at once.
TestingModeRejected == JOB_NAME = "flash"

\* The mock opportunities: complete, with three test results whose profit
\* percent grows with the amount.
MockOpportunities ==
    {[DispatchOpportunity(c, profile) EXCEPT !.testResults = SubSeq(@, 2, 4)] :
        c \in DispatchCycles, profile \in {<<40, 100, 470, 970, 4>>}}

\* What sendArbitrage returns: job.id || "", or undefined from the catch block.
Returned(id) == [kind |-> "jobId", pair |-> NoAddr, value |-> id]

ReturnedUndefined == [kind |-> "undefined", pair |-> NoAddr, value |-> 0]

\* A sendArbitrage call in testing mode.
TestingOp == [op |-> "sendArbitrage", pair |-> NoAddr, index |-> 0, force |-> FALSE,
              isTesting |-> TRUE]

\* The larger job of sendAnotherArbitrage in testing mode: 0.01 token at the
\* default slippage.
TestingScaledJob(job) ==
    [job EXCEPT !.payload.borrowAmount =
                    [mant |-> 1, exp |-> BorrowTokenDecimals(job.opportunity.path) - 2],
                !.payload.slippages = <<997, 997, 997>>,
                !.priority = 0 - 1000000,
                !.primary = FALSE]

\* The jobs a sendArbitrage call in testing mode adds when it is let through;
\* the id of a job is its place in the queue.
TestingJobs(opportunityData, pm) ==
    IF ~Sendable(opportunityData) THEN <<>>
    ELSE IF ScalesUp(opportunityData.testResults)
    THEN <<PrimaryJob(opportunityData, pm), TestingScaledJob(PrimaryJob(opportunityData, pm))>>
    ELSE <<PrimaryJob(opportunityData, pm)>>

\* sendArbitrage(opportunityData, true), with the sendAnotherArbitrage it awaits.
sendArbitrageTesting(opportunityData) ==
    /\ lastOp' = TestingOp
    /\ IF TestingModeRejected \/ ~Sendable(opportunityData)
       THEN /\ arbitrageQueue' = arbitrageQueue
            /\ ret' = ReturnedUndefined
       ELSE /\ arbitrageQueue' = arbitrageQueue \o TestingJobs(opportunityData, poolsMap)
            /\ ret' = Returned(Len(arbitrageQueue) + 1)
    /\ UNCHANGED <<now, poolsMap, tokenPools, tokenCache, currentPoolIndices,
                   lastProfitFound, totalPools, RANDOM_END, loads>>
    /\ UNCHANGED <<INPUT_ARGS, quotes, finder, reported, calc, sending>>
    /\ UNCHANGED <<histVars, flashSwap, schedVars>>

\* test_main
TestMainNext ==
    \E opportunityData \in MockOpportunities : sendArbitrageTesting(opportunityData)

SpecTestMain == InitDispatch /\ [][TestMainNext]_vars

\* C28: a sendArbitrage call in testing mode with a complete opportunity whose
\* three test results have a growing profit percent adds a job to the queue and
\* returns the id of that job, which is not empty.
C28_TestingCallQueuesJob ==
    [][lastOp'.op = "sendArbitrage" =>
          /\ Len(arbitrageQueue') > Len(arbitrageQueue)
          /\ ret'.kind = "jobId"
          /\ ret'.value = Len(arbitrageQueue) + 1]_vars

\* C28, what holds: a sendArbitrage call in testing mode adds no job and
\* returns undefined.
C28_TestingCallRejected ==
    [][lastOp'.op = "sendArbitrage" =>
          /\ arbitrageQueue' = arbitrageQueue
          /\ ret' = ReturnedUndefined]_vars

\* test_main has called sendArbitrage in testing mode; the queue is empty and
\* the call has returned undefined.
C28_Witness ==
    /\ lastOp = TestingOp
    /\ arbitrageQueue = <<>>
    /\ ret = ReturnedUndefined

-----------------------------------------------------------------------------
(* Termination of loadInitialPoolData (monitor.ts): the load that          *)
(* startMonitoring awaits, with reads that may reject.  No timer is set     *)
(* before this load returns.                                                *)

LoadNext ==
    \/ startMonitoring
    \/ \E l \in Loaders : LengthReturns(l)
    \/ \E l \in Loaders : LengthFails(l)
    \/ \E l \in Loaders : BackoffEnds(l)
    \/ \E l \in Loaders, rejected \in SUBSET PriorityPairsOnChain :
          PriorityLoaded(l, rejected)
    \/ \E l \in Loaders, rejected \in SUBSET currentPoolIndices :
          RandomLoaded(l, rejected)

\* Every call the load awaits settles, with a value or an error, and the
\* timer of the catch block fires.
LoadFairness ==
    \A l \in Loaders :
        /\ WF_vars(LengthReturns(l) \/ LengthFails(l))
        /\ WF_vars(BackoffEnds(l))
        /\ WF_vars(\E rejected \in SUBSET PriorityPairsOnChain :
                       PriorityLoaded(l, rejected))
        /\ WF_vars(\E rejected \in SUBSET currentPoolIndices :
                       RandomLoaded(l, rejected))

SpecLoad == InitSched /\ [][LoadNext]_vars /\ LoadFairness

\* From some point on allPairsLength() answers.
SizeReadSucceedsFromSomePoint ==
    <>[][\A l \in Loaders : ~LengthFails(l)]_vars

\* From some point on the reads of the priority pairs answer with values too.
PriorityReadsAnswerFromSomePoint ==
    <>[][\A l \in Loaders :
            /\ ~LengthFails(l)
            /\ loaders[l].pc = "priority" => PriorityLoaded(l, {})]_vars

EveryLoadTerminates == LoadInProgress ~> ~LoadInProgress

\* A load returns only from its last step, leaving scanPaused false.
TerminatesUnpaused ==
    [][\A l \in Loaders :
          loaders[l].pc # "idle" /\ loaders'[l].pc = "idle" =>
              /\ loaders[l].pc = "random"
              /\ scanPaused' = FALSE]_vars

\* A rejected size read leaves the load waiting with the store emptied and a
\* sample drawn anew; the wait over, the size is read again.
RetriesWithResetSample ==
    [][\A l \in Loaders :
          /\ loaders[l].pc = "length" /\ loaders'[l].pc # "priority" =>
                /\ loaders'[l].pc \in {"length", "backoff"}
                /\ loaders'[l].pc = "backoff" =>
                      /\ poolsMap' = EmptyMap
                      /\ currentPoolIndices' \in
                            generateRandomPoolIndices(POOLS_TO_SAMPLE, RANDOM_START,
                                                      RANDOM_END, totalPools)
          /\ loaders[l].pc = "backoff" =>
                loaders'[l].pc \in {"backoff", "length"}]_vars

\* C30: if from some point on the registry-size read succeeds, every started
\* loadInitialPoolData terminates, the reads of pairs and pools returning
\* values or errors; it terminates with scanPaused false; a load whose size
\* read fails does not terminate and retries with a freshly reset sample.
C30_LoadTerminatesWhenSizeReadSucceeds ==
    /\ SizeReadSucceedsFromSomePoint => EveryLoadTerminates
    /\ TerminatesUnpaused
    /\ RetriesWithResetSample

\* C30, as the code has it: the load terminates if the reads of the priority
\* pairs, which put the stablecoins into the token cache, answer with values
\* from some point on as well.
C30_LoadTerminatesWhenStablecoinsLoad ==
    /\ PriorityReadsAnswerFromSomePoint => EveryLoadTerminates
    /\ TerminatesUnpaused
    /\ RetriesWithResetSample

\* The size read has answered, the reads have returned, and the load waits to
\* retry because a stablecoin is not in the token cache.
C30_Witness ==
    \E l \in Loaders :
        /\ loaders[l].pc = "backoff"
        /\ totalPools = Len(ChainPairs)
        /\ \E st \in STABLECOINS : st \notin DOMAIN tokenCache

-----------------------------------------------------------------------------
(* calculateSafeTradeAmount (send.ts) on its own: the liquidities of the    *)
(* three hops are drawn on both sides of its two breakpoints.               *)

LiquidityBreakpoints == {0, 50000, 100000, 100001, 1000000, 1000001, 40000000}

\* What poolLiquidities can hold for a hop: 0 for a pool that is missing or of
\* unknown liquidity, its liquidityUSD otherwise.
HopLiquidities ==
    {[known |-> FALSE, usd |-> 0]} \cup
    {[known |-> TRUE, usd |-> x] : x \in LiquidityBreakpoints}

SafeAmountOp(poolLiquidities) ==
    LET valid == validLiquidities(poolLiquidities) IN
    [op |-> "calculateSafeTradeAmount",
     poolLiquidities |-> poolLiquidities,
     minLiquidity |-> IF valid = {} THEN 0 ELSE MinOf(valid),
     safePercentage |-> IF valid = {} THEN 0 ELSE safePercentage(MinOf(valid)),
     amount |-> calculateSafeTradeAmount(poolLiquidities)]

calculateSafeTradeAmountCall(poolLiquidities) ==
    /\ lastOp' = SafeAmountOp(poolLiquidities)
    /\ UNCHANGED <<storeVars, histVars, flashSwap, schedVars, finderVars>>

SafeAmountNext ==
    \E poolLiquidities \in [1..3 -> HopLiquidities] :
        calculateSafeTradeAmountCall(poolLiquidities)

InitSafeAmount == StoreInit /\ HistIdle /\ SchedIdle /\ FinderIdle /\ FlashSwapInit

SpecSafeAmount == InitSafeAmount /\ [][SafeAmountNext]_vars

\* The minimum liquidities above the one of the last call.
ThickerPools ==
    {L \in LiquidityBreakpoints : L > 0 /\ lastOp.minLiquidity < L}

\* C33: the safe fraction applied to the minimum hop liquidity is smaller
\* for thinner pools: for minimum liquidities L1 < L2 the fraction applied
\* for L1 is at most the one applied for L2.
C33_SmallerFractionForThinnerPools ==
    (lastOp.op = "calculateSafeTradeAmount" /\ lastOp.minLiquidity > 0) =>
        \A L2 \in ThickerPools : lastOp.safePercentage <= safePercentage(L2)

\* C33, as the code has it: the safe fraction applied to the minimum hop
\* liquidity is larger for thinner pools: for L1 < L2 the fraction applied
\* for L1 is at least the one applied for L2.
C33_LargerFractionForThinnerPools ==
    (lastOp.op = "calculateSafeTradeAmount" /\ lastOp.minLiquidity > 0) =>
        \A L2 \in ThickerPools : lastOp.safePercentage >= safePercentage(L2)

\* The amount has been sized from a minimum liquidity of 50,000 with the
\* fraction 15/1000, and a pool forty times as deep gets 8/1000.
C33_Witness ==
    /\ lastOp.op = "calculateSafeTradeAmount"
    /\ lastOp.minLiquidity = 50000
    /\ lastOp.safePercentage = 15
    /\ lastOp.amount = 700
    /\ \E L2 \in ThickerPools : safePercentage(L2) < lastOp.safePercentage

-----------------------------------------------------------------------------
(* The settlement contract (contracts/FlashSwap.sol): start, the flash-loan *)
(* callback pancakeCall and its three placeTrade calls, as one transaction. *)
(* Amounts are in token units; the router pays what it quotes within the    *)
(* transaction.                                                             *)

\* msg.sender: the deployer or another account.
Senders == {"owner", "stranger"}

ZeroAddress == "0x0"

BASE_TOKEN == "WBNB"

\* The pools the factory answers getPair for.
FactoryPairs ==
    {{a, b} : a, b \in {"WBNB", "BUSD", "CAKE", "CROX"}} \ {{a} : a \in {"WBNB", "BUSD", "CAKE", "CROX"}}

getPairExists(a, b) == {a, b} \in FactoryPairs

\* The longest _slippageValues array passed to start.
MaxSlippageValues == 4

SlippageSamples == {989, 990, 999, 1000}

\* The arrays passed as _slippageValues: of every length in range, and of
\* length three with values inside and outside [990, 999].
SlippageInputs ==
    UNION {[1..n -> {990, 999}] : n \in 0..MaxSlippageValues}
        \cup [1..3 -> SlippageSamples]

\* The token triples and amounts passed to start.
TradeInputs ==
    {[token0 |-> "BUSD", token1 |-> "CAKE", token2 |-> "CROX", borrow |-> 100000],
     [token0 |-> "BUSD", token1 |-> "CAKE", token2 |-> "CAKE", borrow |-> 100000]}

\* What the router quotes per 1000 units in, for each of the three hops.
HopRates == {<<1010, 1000, 1000>>, <<1000, 1000, 1000>>}

\* The router's getAmountsOut for a path of one hop, at the rate of the market.
getAmountsOutAt(amountIn, rate) == (amountIn * rate) \div 1000

checkProfitability(_input, _output) == _output > (_input * 1005) \div 1000

\* The requires of validateArbitrageParameters pass.
validateArbitrageParameters(_token0, _borrow_amt, _token1, _token2) ==
    /\ _token0 # ZeroAddress /\ _token1 # ZeroAddress /\ _token2 # ZeroAddress
    /\ _borrow_amt > 0
    /\ _token0 # _token1 /\ _token1 # _token2 /\ _token2 # _token0
    /\ _token0 # BASE_TOKEN /\ _token1 # BASE_TOKEN /\ _token2 # BASE_TOKEN
    /\ getPairExists(_token0, BASE_TOKEN)
    /\ getPairExists(_token0, _token1)
    /\ getPairExists(_token1, _token2)
    /\ getPairExists(_token2, _token0)

\* The validation of _slippageValues in start passes.
SlippageValuesAccepted(_slippageValues) ==
    Len(_slippageValues) > 0 =>
        /\ Len(_slippageValues) = 3
        /\ \A i \in 1..Len(_slippageValues) :
              _slippageValues[i] >= 990 /\ _slippageValues[i] <= 999

\* placeTrade: the slippage is slippageValues[_tradeIndex] of the storage when
\* that array has three elements (elements 0, 1, 2; _tradeIndex is 1, 2, 3),
\* defaultSlippage otherwise.
placeTrade(storage, _fromToken, _toToken, _amountIn, _tradeIndex, rate) ==
    LET expectedAmount == getAmountsOutAt(_amountIn, rate)
        indexed        == Len(storage.slippageValues) = 3
        inBounds       == _tradeIndex < Len(storage.slippageValues)
        slippage       == IF indexed
                          THEN IF inBounds THEN storage.slippageValues[_tradeIndex + 1] ELSE 0
                          ELSE storage.defaultSlippage
        amountOutMin   == (expectedAmount * slippage) \div 1000
    IN  [expectedAmount |-> expectedAmount,
         slippage       |-> slippage,
         amountOutMin   |-> amountOutMin,
         amountReceived |-> expectedAmount,
         reverted       |-> IF ~getPairExists(_fromToken, _toToken) THEN "!pool"
                            ELSE IF indexed /\ ~inBounds THEN "Panic(0x32)"
                            ELSE IF expectedAmount < amountOutMin
                                 THEN "INSUFFICIENT_OUTPUT_AMOUNT"
                            ELSE IF expectedAmount = 0
                                 THEN "Aborted Tx: Trade returned zero"
                            ELSE ""]

\* pancakeCall for a loan of borrowAmount of TOKEN0: the three trades, the
\* profit check, the repayment and delete slippageValues.  The trades made
\* up to the first that reverts, and the reason the call reverts with.
pancakeCall(storage, borrowAmount, market) ==
    LET fee           == ((borrowAmount * 3) \div 997) + 1
        amountToRepay == borrowAmount + fee
        t1 == placeTrade(storage, storage.TOKEN0, storage.TOKEN1, borrowAmount, 1, market[1])
        t2 == placeTrade(storage, storage.TOKEN1, storage.TOKEN2, t1.amountReceived, 2, market[2])
        t3 == placeTrade(storage, storage.TOKEN2, storage.TOKEN0, t2.amountReceived, 3, market[3])
    IN  IF t1.reverted # "" THEN [trades |-> <<t1>>, reverted |-> t1.reverted]
        ELSE IF t2.reverted # "" THEN [trades |-> <<t1, t2>>, reverted |-> t2.reverted]
        ELSE IF t3.reverted # "" THEN [trades |-> <<t1, t2, t3>>, reverted |-> t3.reverted]
        ELSE [trades   |-> <<t1, t2, t3>>,
              reverted |-> IF checkProfitability(amountToRepay, t3.amountReceived)
                           THEN "" ELSE "Not Profitable!"]

\* setDefaultSlippage as a transaction.
setDefaultSlippage(sender, _slippage) ==
    LET reverted == IF sender # "owner" THEN "!owner"
                    ELSE IF ~(_slippage >= 990 /\ _slippage <= 999) THEN "Invalid value"
                    ELSE ""
    IN  /\ flashSwap' = IF reverted = "" THEN [flashSwap EXCEPT !.defaultSlippage = _slippage]
                        ELSE flashSwap
        /\ lastOp' = [op |-> "setDefaultSlippage", sender |-> sender,
                      _slippage |-> _slippage, reverted |-> reverted]
        /\ UNCHANGED <<storeVars, histVars, schedVars, finderVars>>

\* start as a transaction: its requires, setDeadlineMinutes, the tokens, the
\* loan (pair.swap, which calls pancakeCall back).  A transaction that reverts
\* leaves the storage as it was.
start(sender, trade, _deadlineMinutes, _slippageValues, market) ==
    LET before   == IF sender # "owner" THEN "!owner"
                    ELSE IF Len(_slippageValues) > 0 /\ Len(_slippageValues) # 3
                         THEN "Must provide 3 slippage values or none"
                    ELSE IF ~SlippageValuesAccepted(_slippageValues)
                         THEN "Slippage should be in [990,999]"
                    ELSE IF ~validateArbitrageParameters(trade.token0, trade.borrow,
                                                         trade.token1, trade.token2)
                         THEN "validateArbitrageParameters"
                    ELSE IF _deadlineMinutes > 60
                         THEN "Minutes must be between 1 and 60"
                    ELSE ""
        storage  == [flashSwap EXCEPT
                        !.deadlineMinutes = IF _deadlineMinutes > 0 THEN _deadlineMinutes ELSE @,
                        !.TOKEN0 = trade.token0,
                        !.TOKEN1 = trade.token1,
                        !.TOKEN2 = trade.token2]
        callback == pancakeCall(storage, trade.borrow, market)
        reverted == IF before # "" THEN before ELSE callback.reverted
    IN  /\ flashSwap' = IF reverted = "" THEN [storage EXCEPT !.slippageValues = <<>>]
                        ELSE flashSwap
        /\ lastOp' = [op |-> "start", sender |-> sender,
                      _slippageValues |-> _slippageValues,
                      loan     |-> before = "",
                      trades   |-> IF before = "" THEN callback.trades ELSE <<>>,
                      reverted |-> reverted]
        /\ UNCHANGED <<storeVars, histVars, schedVars, finderVars>>

FlashSwapNext ==
    \/ \E sender \in Senders, _slippage \in {989, 990, 999} :
          setDefaultSlippage(sender, _slippage)
    \/ \E sender \in Senders, trade \in TradeInputs, _deadlineMinutes \in {0, 30, 61},
          _slippageValues \in SlippageInputs, market \in HopRates :
          start(sender, trade, _deadlineMinutes, _slippageValues, market)

InitFlashSwap == StoreInit /\ HistIdle /\ SchedIdle /\ FinderIdle /\ FlashSwapInit

SpecFlashSwap == InitFlashSwap /\ [][FlashSwapNext]_vars

\* The last transaction was a start that took the loan.
LoanTaken == lastOp.op = "start" /\ lastOp.loan

\* C40: start called with three slippage values in [990, 999] computes the
\* minimum output of its i-th swap with the i-th value; called with none,
\* every swap uses the default slippage; called with another number of values
\* or a value out of range, it reverts before any loan is taken.
C40_SwapsUseSuppliedSlippage ==
    lastOp.op = "start" =>
        /\ lastOp.loan /\ Len(lastOp._slippageValues) = 3 =>
              \A i \in 1..Len(lastOp.trades) :
                  /\ lastOp.trades[i].slippage = lastOp._slippageValues[i]
                  /\ lastOp.trades[i].amountOutMin =
                        (lastOp.trades[i].expectedAmount * lastOp._slippageValues[i]) \div 1000
        /\ lastOp.loan /\ Len(lastOp._slippageValues) = 0 =>
              \A i \in 1..Len(lastOp.trades) :
                  lastOp.trades[i].slippage = flashSwap.defaultSlippage
        /\ ~SlippageValuesAccepted(lastOp._slippageValues) =>
              lastOp.reverted # "" /\ ~lastOp.loan

\* C40, as the code has it: every swap computes its minimum output with the
\* default slippage, whatever values start was called with; a call with a
\* number of values other than none or three, or with a value out of range,
\* reverts before any loan is taken.
C40_SwapsUseDefaultSlippage ==
    lastOp.op = "start" =>
        /\ lastOp.loan =>
              \A i \in 1..Len(lastOp.trades) :
                  /\ lastOp.trades[i].slippage = flashSwap.defaultSlippage
                  /\ lastOp.trades[i].amountOutMin =
                        (lastOp.trades[i].expectedAmount * flashSwap.defaultSlippage) \div 1000
        /\ ~SlippageValuesAccepted(lastOp._slippageValues) =>
              lastOp.reverted # "" /\ ~lastOp.loan

\* The owner's start with the values 990, 999, 990 went through with the
\* default slippage of 997 in each of its three swaps.
C40_Witness ==
    /\ LoanTaken
    /\ lastOp.reverted = ""
    /\ lastOp._slippageValues = <<990, 999, 990>>
    /\ flashSwap.defaultSlippage = 997
    /\ Len(lastOp.trades) = 3
    /\ \A i \in 1..3 : lastOp.trades[i].slippage = 997

====
